---------------------------- MODULE Spec2Model ----------------------------
(***************************************************************************)
(* Policy & Reimbursement engine of paeon-med                              *)
(* (src/app/engines/policy_reimbursement.py).                              *)
(*                                                                         *)
(* Text is modelled as a sequence of one-character strings, so that        *)
(* f-string formatting, str.lower(), the substring test (a in b), list     *)
(* membership, sorted() and ",".join() are computed rather than assumed.   *)
(* JSON objects are records; a key lookup that Python guards with .get()   *)
(* is a test on the record's DOMAIN.  Money is exact: claim_amount and     *)
(* max_amount are whole currency units, approved_amount is carried in      *)
(* hundredths of a unit so that claim * percent / 100 needs no rounding.   *)
(*                                                                         *)
(* Seven specifications share the state.  Spec follows one process through *)
(* any sequence of evaluator calls while the file on disk may be replaced. *)
(* SpecEval draws one request and a cold or loaded cache and makes one     *)
(* call.  SpecRoutes follows the two policy endpoints                      *)
(* (src/app/routes/policy.py) and the audit log (src/app/core/audit.py).   *)
(* SpecThreads runs evaluator calls on threads, statement by statement.    *)
(* SpecLlm follows _call_llm (src/app/core/llm_adapter.py).  SpecCoverage  *)
(* applies enrich_coverage_display (src/app/core/coverage_enrichment.py)   *)
(* and SpecProfile follows POST /api/drug-profile                          *)
(* (src/app/routes/profile.py).                                            *)
(***************************************************************************)
EXTENDS Integers, Sequences, FiniteSets, TLC

VARIABLES
    policy_file,     \* what data/policies.json holds on disk
    _policies,       \* the module-level cache of the engine
    request,         \* the arguments of the last call
    response,        \* what the last evaluator call handed back
    reads,           \* how many times the policy file has been opened
    earlier,         \* a call made before the last one, with its result
    _audit_log,      \* the in-memory audit log
    http_response,   \* what the last endpoint call answered
    threads,         \* the evaluator calls in flight on concurrent threads
    llm,             \* the Gemini configuration, client and _call_llm call
    coverage         \* the last coverage display built, with its inputs

vars == <<policy_file, _policies, request, response, reads, earlier, _audit_log, http_response, threads, llm, coverage>>

---------------------------------------------------------------------------
(* Text primitives of the Python runtime used by the engine.               *)

\* The printable ASCII characters in code-point order (32 .. 126); the double
\* quote (34), the backslash (92) and the backtick (96) are spelled out.
Printable == <<" ", "!", "dquote", "#", "$", "%", "&", "'", "(", ")", "*", "+", ",", "-", ".", "/", "0", "1", "2", "3", "4", "5", "6", "7", "8", "9", ":", ";", "<", "=", ">", "?", "@", "A", "B", "C", "D", "E", "F", "G", "H", "I", "J", "K", "L", "M", "N", "O", "P", "Q", "R", "S", "T", "U", "V", "W", "X", "Y", "Z", "[", "backslash", "]", "^", "_", "backtick", "a", "b", "c", "d", "e", "f", "g", "h", "i", "j", "k", "l", "m", "n", "o", "p", "q", "r", "s", "t", "u", "v", "w", "x", "y", "z", "{", "|", "}", "~">>

CharSet == {Printable[i] : i \in 1..Len(Printable)}

\* ord(c)
Ord == [c \in CharSet |-> 31 + (CHOOSE i \in 1..Len(Printable) : Printable[i] = c)]

\* c.lower() for one character: "A".."Z" (65..90) move to "a".."z".
LowerChar == [c \in CharSet |-> IF Ord[c] >= 65 /\ Ord[c] <= 90 THEN Printable[Ord[c] + 32 - 31] ELSE c]

\* s.lower()
Lower(s) == [i \in 1..Len(s) |-> LowerChar[s[i]]]

\* (a in b) for two str values: a occurs in b as a contiguous run.
IsSubstr(a, b) == \E i \in 0..(Len(b) - Len(a)) : SubSeq(b, i + 1, i + Len(a)) = a

\* b.startswith(a)
StartsWith(b, a) == Len(a) <= Len(b) /\ SubSeq(b, 1, Len(a)) = a

\* (x in xs) for a list xs.
InList(x, xs) == \E i \in 1..Len(xs) : xs[i] = x

\* set(xs)
ToSet(xs) == {xs[i] : i \in 1..Len(xs)}

\* a < b for two str values (lexicographic by code point).
StrLess(a, b) ==
    \E i \in 1..(Len(a) + 1) :
        /\ i <= Len(b)
        /\ SubSeq(a, 1, i - 1) = SubSeq(b, 1, i - 1)
        /\ (i = Len(a) + 1 \/ Ord[a[i]] < Ord[b[i]])

\* sorted(S) for a set of str.
RECURSIVE Sorted(_)
Sorted(S) ==
    IF S = {} THEN <<>>
    ELSE LET least == CHOOSE x \in S : \A y \in S \ {x} : StrLess(x, y)
         IN  <<least>> \o Sorted(S \ {least})

\* sep.join(xs)
RECURSIVE Join(_, _)
Join(sep, xs) ==
    IF xs = <<>> THEN <<>>
    ELSE IF Len(xs) = 1 THEN xs[1]
    ELSE xs[1] \o sep \o Join(sep, Tail(xs))

\* The decimal digits of n >= 0.
RECURSIVE Digits(_)
Digits(n) ==
    IF n < 10 THEN <<Printable[n + 17]>>
    ELSE Digits(n \div 10) \o <<Printable[(n % 10) + 17]>>

\* f"{n}" for a JSON integer n.
FormatNumber(n) == IF n < 0 THEN <<"-">> \o Digits(-n) ELSE Digits(n)

---------------------------------------------------------------------------
(* String literals of the engine.                                          *)

APPROVED == <<"A", "P", "P", "R", "O", "V", "E", "D">>
NOT_APPROVED == <<"N", "O", "T", "_", "A", "P", "P", "R", "O", "V", "E", "D">>
CONDITIONAL == <<"C", "O", "N", "D", "I", "T", "I", "O", "N", "A", "L">>

\* "AGE_BELOW_MIN:"
AGE_BELOW_MIN == <<"A", "G", "E", "_", "B", "E", "L", "O", "W", "_", "M", "I", "N", ":">>
\* "AGE_ABOVE_MAX:"
AGE_ABOVE_MAX == <<"A", "G", "E", "_", "A", "B", "O", "V", "E", "_", "M", "A", "X", ":">>
\* "DIAGNOSIS_NOT_ELIGIBLE:"
DIAGNOSIS_NOT_ELIGIBLE == <<"D", "I", "A", "G", "N", "O", "S", "I", "S", "_", "N", "O", "T", "_", "E", "L", "I", "G", "I", "B", "L", "E", ":">>
\* "MISSING_PRIOR_TREATMENT:"
MISSING_PRIOR_TREATMENT == <<"M", "I", "S", "S", "I", "N", "G", "_", "P", "R", "I", "O", "R", "_", "T", "R", "E", "A", "T", "M", "E", "N", "T", ":">>
\* "EXCLUSION_CRITERIA:"
EXCLUSION_CRITERIA == <<"E", "X", "C", "L", "U", "S", "I", "O", "N", "_", "C", "R", "I", "T", "E", "R", "I", "A", ":">>
\* "DIAGNOSIS_NOT_COVERED" (the tag alone, as the status test spells it)
DIAGNOSIS_NOT_COVERED == <<"D", "I", "A", "G", "N", "O", "S", "I", "S", "_", "N", "O", "T", "_", "C", "O", "V", "E", "R", "E", "D">>
\* "INSURANCE_TYPE_UNKNOWN:"
INSURANCE_TYPE_UNKNOWN == <<"I", "N", "S", "U", "R", "A", "N", "C", "E", "_", "T", "Y", "P", "E", "_", "U", "N", "K", "N", "O", "W", "N", ":">>
\* "NO_COVERAGE"
NO_COVERAGE == <<"N", "O", "_", "C", "O", "V", "E", "R", "A", "G", "E">>
\* "CLAIM_EXCEEDS_MAX:"
CLAIM_EXCEEDS_MAX == <<"C", "L", "A", "I", "M", "_", "E", "X", "C", "E", "E", "D", "S", "_", "M", "A", "X", ":">>

\* "No trial policy found for '"
NoTrialPolicyText == <<"N", "o", " ", "t", "r", "i", "a", "l", " ", "p", "o", "l", "i", "c", "y", " ", "f", "o", "u", "n", "d", " ", "f", "o", "r", " ", "'">>
\* "No reimbursement policy found for '"
NoReimbPolicyText == <<"N", "o", " ", "r", "e", "i", "m", "b", "u", "r", "s", "e", "m", "e", "n", "t", " ", "p", "o", "l", "i", "c", "y", " ", "f", "o", "u", "n", "d", " ", "f", "o", "r", " ", "'">>
\* "No policies found for '"
NoPoliciesText == <<"N", "o", " ", "p", "o", "l", "i", "c", "i", "e", "s", " ", "f", "o", "u", "n", "d", " ", "f", "o", "r", " ", "'">>
\* "'."
QuoteDot == <<"'", ".">>

\* "N/A"
NotAvailable == <<"N", "/", "A">>
\* "Drug: "
DrugLabel == <<"D", "r", "u", "g", ":", " ">>
\* "Trial eligibility: "
TrialLabel == <<"T", "r", "i", "a", "l", " ", "e", "l", "i", "g", "i", "b", "i", "l", "i", "t", "y", ":", " ">>
\* "Reimbursement: "
ReimbLabel == <<"R", "e", "i", "m", "b", "u", "r", "s", "e", "m", "e", "n", "t", ":", " ">>
\* " | "
Pipe == <<" ", "|", " ">>

---------------------------------------------------------------------------
(* The persisted configuration (data/policies.json) and the request        *)
(* values the engine is exercised with.                                    *)

S_Ciplar == <<"C", "i", "p", "l", "a", "r">>
S_Trialin == <<"T", "r", "i", "a", "l", "i", "n">>
S_Reimbol == <<"R", "e", "i", "m", "b", "o", "l">>
S_Nodrug == <<"N", "o", "d", "r", "u", "g">>
S_hypertension == <<"h", "y", "p", "e", "r", "t", "e", "n", "s", "i", "o", "n">>
S_Hypertension == <<"H", "y", "p", "e", "r", "t", "e", "n", "s", "i", "o", "n">>
S_Renal_failure == <<"R", "e", "n", "a", "l", " ", "f", "a", "i", "l", "u", "r", "e">>
S_renal == <<"r", "e", "n", "a", "l">>
S_chemo == <<"c", "h", "e", "m", "o">>
S_HYPER == <<"H", "Y", "P", "E", "R">>
S_CHEMO == <<"C", "H", "E", "M", "O">>
S_Chemotherapy == <<"C", "h", "e", "m", "o", "t", "h", "e", "r", "a", "p", "y">>
S_metformin == <<"m", "e", "t", "f", "o", "r", "m", "i", "n">>
S_Statin == <<"S", "t", "a", "t", "i", "n">>
S_statin == <<"s", "t", "a", "t", "i", "n">>
S_consent_form == <<"c", "o", "n", "s", "e", "n", "t", " ", "f", "o", "r", "m">>
S_prescription == <<"p", "r", "e", "s", "c", "r", "i", "p", "t", "i", "o", "n">>
S_corporate == <<"c", "o", "r", "p", "o", "r", "a", "t", "e">>
S_government == <<"g", "o", "v", "e", "r", "n", "m", "e", "n", "t">>
S_private == <<"p", "r", "i", "v", "a", "t", "e">>
S_none == <<"n", "o", "n", "e">>

\* {} as the policy document: no top-level key.
EmptyDoc == [keys |-> {}, trial_policies |-> <<>>, reimbursement_policies |-> <<>>]

\* A document with both collections.  Ciplar has a record in both, Trialin
\* only a trial record, Reimbol only a reimbursement record.
PoliciesA ==
    [keys |-> {"trial_policies", "reimbursement_policies"},
     trial_policies |->
        (S_Ciplar :> [min_age |-> 18, max_age |-> 65,
                      eligible_diagnoses |-> <<S_hypertension>>,
                      required_prior_treatments |-> <<S_metformin>>,
                      exclusion_criteria |-> <<S_renal, S_chemo>>,
                      required_documents |-> <<S_consent_form, S_prescription>>])
        @@
        (S_Trialin :> [min_age |-> 18, max_age |-> 65,
                       eligible_diagnoses |-> <<S_hypertension, S_Renal_failure>>,
                       required_prior_treatments |-> <<S_metformin, S_Statin>>,
                       required_documents |-> <<S_consent_form>>]),
     reimbursement_policies |->
        (S_Ciplar :> [eligible_diagnoses |-> <<S_hypertension>>,
                      insurance_coverage |->
                         (S_corporate :> [coverage_percent |-> 85, max_amount |-> 10000])
                         @@ (S_government :> [coverage_percent |-> 0, max_amount |-> 5000])
                         @@ (S_private :> [coverage_percent |-> 50, max_amount |-> 0])])
        @@
        (S_Reimbol :> [eligible_diagnoses |-> <<S_hypertension, S_Renal_failure>>,
                       insurance_coverage |->
                          (S_corporate :> [coverage_percent |-> 100, max_amount |-> 1000])
                          @@ (DIAGNOSIS_NOT_COVERED :> [coverage_percent |-> 40, max_amount |-> 2000])])]

\* A document with the trial collection only.  Ciplar's record defines just
\* the age bounds and the eligible diagnoses; Trialin's record has its age
\* bounds crossed and an exclusion criterion that its eligible diagnosis
\* contains when case is ignored.
PoliciesB ==
    [keys |-> {"trial_policies"},
     trial_policies |->
        (S_Ciplar :> [min_age |-> 18, max_age |-> 65,
                      eligible_diagnoses |-> <<S_hypertension>>])
        @@
        (S_Trialin :> [min_age |-> 65, max_age |-> 18,
                       eligible_diagnoses |-> <<S_Hypertension>>,
                       required_prior_treatments |-> <<S_Statin>>,
                       exclusion_criteria |-> <<S_HYPER, S_chemo, S_renal>>,
                       required_documents |-> <<>>])
        @@
        (S_Reimbol :> [min_age |-> 18, max_age |-> 65,
                       eligible_diagnoses |-> <<S_hypertension>>,
                       required_documents |-> <<S_prescription>>]),
     reimbursement_policies |-> <<>>]

\* The documents the file may hold.
PolicyFiles == <<PoliciesA, PoliciesB, EmptyDoc>>

\* A file whose text is not JSON: json.load raises and nothing is cached.
Unparsable ==
    [keys |-> {}, trial_policies |-> <<>>, reimbursement_policies |-> <<>>,
     error |-> "JSONDecodeError"]

\* What the file may hold over the life of a process.
FileContents == PolicyFiles \o <<Unparsable>>

DrugNames == {S_Ciplar, S_Trialin, S_Reimbol, S_Nodrug}
Diagnoses == {S_hypertension, S_Hypertension, S_Renal_failure}
Ages == {17, 18, 40, 65, 70}
Treatments == {S_metformin, S_Statin, S_statin, S_CHEMO, S_Chemotherapy}
InsuranceTypes == {S_corporate, S_government, S_private, S_none, DIAGNOSIS_NOT_COVERED}
ClaimAmounts == {0, 1000, 5000, 11000, 20000}
Timestamps == {"2026-01-01T00:00:00+00:00", "2026-01-01T00:00:01+00:00"}

\* The longest prior_treatments list of a request.
MaxPrior == 2

RECURSIVE ListsUpTo(_, _)
ListsUpTo(S, n) ==
    IF n = 0 THEN {<<>>}
    ELSE LET shorter == ListsUpTo(S, n - 1)
         IN  shorter \cup {Append(l, x) : l \in shorter, x \in S}

PriorLists == ListsUpTo(Treatments, MaxPrior)

---------------------------------------------------------------------------
(* The engine.                                                             *)

\* policies.get(key, {}) on the policy document
DocGet(policies, key) == IF key \in policies.keys THEN policies[key] ELSE <<>>

\* d.get(key, default) on a record of the document
Get(d, key, default) == IF key \in DOMAIN d THEN d[key] ELSE default

\* _load_policies reading the file on every call.
_load_policies_AlwaysRead(cache, file) == file

\* _load_policies: the cache is read from the file while it is falsy (empty).
_load_policies(cache, file) == IF cache.keys = {} THEN file ELSE cache

\* What a call hands back: a CardEnvelope, or an exception that leaves it.
Returned(card_type, card, invoked) ==
    [kind |-> "return", exc |-> "", card_type |-> card_type, card |-> card, invoked |-> invoked]

Raised(exc, invoked) ==
    [kind |-> "raise", exc |-> exc, card_type |-> "", card |-> [blocked |-> FALSE], invoked |-> invoked]

\* RefusalCard(reason=..., violation_type="no_policy").model_dump()
NoPolicyCard(text, drug_name) ==
    [blocked |-> TRUE, reason |-> text \o drug_name \o QuoteDot, violation_type |-> "no_policy"]

\* TrialNoPolicy answering with a default NOT_APPROVED card.
TrialNoPolicy_DefaultDeny(drug_name) ==
    Returned("trial_enablement_card",
             [drug_name |-> drug_name, status |-> NOT_APPROVED, reason_codes |-> <<>>,
              required_documents |-> <<>>, exclusion_flags |-> <<>>],
             <<"_evaluate_trial_eligibility">>)

\* The refusal of the trial evaluator for a drug without a trial record.
TrialNoPolicy(drug_name) ==
    Returned("refusal_card", NoPolicyCard(NoTrialPolicyText, drug_name),
             <<"_evaluate_trial_eligibility">>)

\* The membership test that guards the trial evaluation.
HasTrialPolicy(policies, drug_name) ==
    drug_name \in DOMAIN DocGet(policies, "trial_policies")

\* MissingPrior with treatments matched ignoring case.
MissingPrior_IgnoringCase(policy, prior_treatments) ==
    {r \in ToSet(Get(policy, "required_prior_treatments", <<>>)) :
        \A i \in 1..Len(prior_treatments) : Lower(prior_treatments[i]) # Lower(r)}

\* required_prior - provided_prior
MissingPrior(policy, prior_treatments) ==
    ToSet(Get(policy, "required_prior_treatments", <<>>)) \ ToSet(prior_treatments)

\* ExclusionMatches with the diagnosis matched in the case given.
ExclusionMatches_CaseSensitive(excl, diagnosis, prior_treatments) ==
    \/ IsSubstr(excl, diagnosis)
    \/ InList(Lower(excl), [i \in 1..Len(prior_treatments) |-> Lower(prior_treatments[i])])

\* The condition under which an exclusion criterion is flagged.
ExclusionMatches(excl, diagnosis, prior_treatments) ==
    \/ IsSubstr(Lower(excl), Lower(diagnosis))
    \/ InList(Lower(excl), [i \in 1..Len(prior_treatments) |-> Lower(prior_treatments[i])])

\* exclusion_flags after the loop over the record's exclusion_criteria
ExclusionFlags(policy, diagnosis, prior_treatments) ==
    LET Hit(excl) == ExclusionMatches(excl, diagnosis, prior_treatments)
    IN  SelectSeq(Get(policy, "exclusion_criteria", <<>>), Hit)

\* TrialReasonCodes with the diagnosis check ahead of the age checks.
TrialReasonCodes_DiagnosisFirst(policy, diagnosis, patient_age, prior_treatments) ==
    LET missing_prior == MissingPrior(policy, prior_treatments)
        flags == ExclusionFlags(policy, diagnosis, prior_treatments)
    IN  (IF ~InList(diagnosis, policy.eligible_diagnoses)
            THEN <<DIAGNOSIS_NOT_ELIGIBLE \o diagnosis>> ELSE <<>>)
        \o (IF patient_age < policy.min_age
            THEN <<AGE_BELOW_MIN \o FormatNumber(policy.min_age)>> ELSE <<>>)
        \o (IF patient_age > policy.max_age
            THEN <<AGE_ABOVE_MAX \o FormatNumber(policy.max_age)>> ELSE <<>>)
        \o (IF missing_prior # {}
            THEN <<MISSING_PRIOR_TREATMENT \o Join(<<",">>, Sorted(missing_prior))>> ELSE <<>>)
        \o [i \in 1..Len(flags) |-> EXCLUSION_CRITERIA \o flags[i]]

\* reason_codes of the trial evaluation, in the order the checks append them
TrialReasonCodes(policy, diagnosis, patient_age, prior_treatments) ==
    LET missing_prior == MissingPrior(policy, prior_treatments)
        flags == ExclusionFlags(policy, diagnosis, prior_treatments)
    IN  (IF patient_age < policy.min_age
            THEN <<AGE_BELOW_MIN \o FormatNumber(policy.min_age)>> ELSE <<>>)
        \o (IF patient_age > policy.max_age
            THEN <<AGE_ABOVE_MAX \o FormatNumber(policy.max_age)>> ELSE <<>>)
        \o (IF ~InList(diagnosis, policy.eligible_diagnoses)
            THEN <<DIAGNOSIS_NOT_ELIGIBLE \o diagnosis>> ELSE <<>>)
        \o (IF missing_prior # {}
            THEN <<MISSING_PRIOR_TREATMENT \o Join(<<",">>, Sorted(missing_prior))>> ELSE <<>>)
        \o [i \in 1..Len(flags) |-> EXCLUSION_CRITERIA \o flags[i]]

\* TrialStatus with a CONDITIONAL grade for a single reason code.
TrialStatus_Graded(reason_codes) ==
    IF reason_codes = <<>> THEN APPROVED
    ELSE IF Len(reason_codes) = 1 THEN CONDITIONAL
    ELSE NOT_APPROVED

\* status of a trial evaluation
TrialStatus(reason_codes) == IF reason_codes # <<>> THEN NOT_APPROVED ELSE APPROVED

_evaluate_trial_eligibility(policies, drug_name, diagnosis, patient_age, prior_treatments) ==
    IF ~HasTrialPolicy(policies, drug_name)
    THEN TrialNoPolicy(drug_name)
    ELSE LET policy == DocGet(policies, "trial_policies")[drug_name]
             reason_codes == TrialReasonCodes(policy, diagnosis, patient_age, prior_treatments)
         IN  IF "required_documents" \notin DOMAIN policy
             THEN Raised("KeyError", <<"_evaluate_trial_eligibility">>)
             ELSE Returned("trial_enablement_card",
                           [drug_name |-> drug_name,
                            status |-> TrialStatus(reason_codes),
                            reason_codes |-> reason_codes,
                            required_documents |-> policy.required_documents,
                            exclusion_flags |-> ExclusionFlags(policy, diagnosis, prior_treatments)],
                           <<"_evaluate_trial_eligibility">>)

\* ReimbNoPolicy answering with a default NOT_APPROVED card.
ReimbNoPolicy_DefaultDeny(drug_name) ==
    Returned("reimbursement_status_card",
             [drug_name |-> drug_name, status |-> NOT_APPROVED, coverage_percent |-> 0,
              approved_amount |-> 0, reason_codes |-> <<NO_COVERAGE>>],
             <<"evaluate_reimbursement">>)

\* The refusal of evaluate_reimbursement for a drug without a reimbursement record.
ReimbNoPolicy(drug_name) ==
    Returned("refusal_card", NoPolicyCard(NoReimbPolicyText, drug_name),
             <<"evaluate_reimbursement">>)

\* The membership test that guards the reimbursement evaluation.
HasReimbPolicy(policies, drug_name) ==
    drug_name \in DOMAIN DocGet(policies, "reimbursement_policies")

\* policy["insurance_coverage"].get(insurance_type) is truthy
CoverageFound(policy, insurance_type) == insurance_type \in DOMAIN policy.insurance_coverage

\* CoveragePercent with an unknown insurance type covered in full.
CoveragePercent_DefaultFull(policy, insurance_type) ==
    IF CoverageFound(policy, insurance_type)
    THEN policy.insurance_coverage[insurance_type].coverage_percent
    ELSE 100

\* coverage_percent after the insurance-type branch
CoveragePercent(policy, insurance_type) ==
    IF CoverageFound(policy, insurance_type)
    THEN policy.insurance_coverage[insurance_type].coverage_percent
    ELSE 0

\* MaxAmount with a cap of 1000 for an unknown insurance type.
MaxAmount_UnknownCapped(policy, insurance_type) ==
    IF CoverageFound(policy, insurance_type)
    THEN policy.insurance_coverage[insurance_type].max_amount
    ELSE 1000

\* max_amount after the insurance-type branch
MaxAmount(policy, insurance_type) ==
    IF CoverageFound(policy, insurance_type)
    THEN policy.insurance_coverage[insurance_type].max_amount
    ELSE 0

Min(a, b) == IF a <= b THEN a ELSE b

\* ApprovedAmount without the cap: the covered amount itself.
ApprovedAmount_Uncapped(claim_amount, coverage_percent, max_amount) ==
    claim_amount * coverage_percent

\* approved_amount = min(claim_amount * (coverage_percent / 100.0), max_amount),
\* in hundredths of a currency unit
ApprovedAmount(claim_amount, coverage_percent, max_amount) ==
    Min(claim_amount * coverage_percent, max_amount * 100)

\* ReimbReasonCodes without the CLAIM_EXCEEDS_MAX check.
ReimbReasonCodes_NoClaimCheck(policy, diagnosis, insurance_type, claim_amount) ==
    LET coverage_percent == CoveragePercent(policy, insurance_type)
    IN  (IF ~InList(diagnosis, policy.eligible_diagnoses)
            THEN <<DIAGNOSIS_NOT_COVERED \o <<":">> \o diagnosis>> ELSE <<>>)
        \o (IF ~CoverageFound(policy, insurance_type)
            THEN <<INSURANCE_TYPE_UNKNOWN \o insurance_type>> ELSE <<>>)
        \o (IF coverage_percent = 0 THEN <<NO_COVERAGE>> ELSE <<>>)

\* ReimbReasonCodes with a claim equal to max_amount counted as exceeding it.
ReimbReasonCodes_ClaimAtCap(policy, diagnosis, insurance_type, claim_amount) ==
    LET coverage_percent == CoveragePercent(policy, insurance_type)
        max_amount == MaxAmount(policy, insurance_type)
    IN  (IF ~InList(diagnosis, policy.eligible_diagnoses)
            THEN <<DIAGNOSIS_NOT_COVERED \o <<":">> \o diagnosis>> ELSE <<>>)
        \o (IF ~CoverageFound(policy, insurance_type)
            THEN <<INSURANCE_TYPE_UNKNOWN \o insurance_type>> ELSE <<>>)
        \o (IF coverage_percent = 0 THEN <<NO_COVERAGE>> ELSE <<>>)
        \o (IF claim_amount >= max_amount /\ max_amount > 0
            THEN <<CLAIM_EXCEEDS_MAX \o FormatNumber(max_amount)>> ELSE <<>>)

\* ReimbReasonCodes with the cap checked before the coverage.
ReimbReasonCodes_CapBeforeCoverage(policy, diagnosis, insurance_type, claim_amount) ==
    LET coverage_percent == CoveragePercent(policy, insurance_type)
        max_amount == MaxAmount(policy, insurance_type)
    IN  (IF ~InList(diagnosis, policy.eligible_diagnoses)
            THEN <<DIAGNOSIS_NOT_COVERED \o <<":">> \o diagnosis>> ELSE <<>>)
        \o (IF ~CoverageFound(policy, insurance_type)
            THEN <<INSURANCE_TYPE_UNKNOWN \o insurance_type>> ELSE <<>>)
        \o (IF claim_amount > max_amount /\ max_amount > 0
            THEN <<CLAIM_EXCEEDS_MAX \o FormatNumber(max_amount)>> ELSE <<>>)
        \o (IF coverage_percent = 0 THEN <<NO_COVERAGE>> ELSE <<>>)

\* reason_codes of the reimbursement evaluation, in the order they are appended
ReimbReasonCodes(policy, diagnosis, insurance_type, claim_amount) ==
    LET coverage_percent == CoveragePercent(policy, insurance_type)
        max_amount == MaxAmount(policy, insurance_type)
    IN  (IF ~InList(diagnosis, policy.eligible_diagnoses)
            THEN <<DIAGNOSIS_NOT_COVERED \o <<":">> \o diagnosis>> ELSE <<>>)
        \o (IF ~CoverageFound(policy, insurance_type)
            THEN <<INSURANCE_TYPE_UNKNOWN \o insurance_type>> ELSE <<>>)
        \o (IF coverage_percent = 0 THEN <<NO_COVERAGE>> ELSE <<>>)
        \o (IF claim_amount > max_amount /\ max_amount > 0
            THEN <<CLAIM_EXCEEDS_MAX \o FormatNumber(max_amount)>> ELSE <<>>)

\* ReimbStatus without the DIAGNOSIS_NOT_COVERED test.
ReimbStatus_CoverageOnly(coverage_percent, reason_codes) ==
    IF coverage_percent = 0 THEN NOT_APPROVED
    ELSE IF reason_codes # <<>> THEN CONDITIONAL
    ELSE APPROVED

\* status of a reimbursement evaluation
ReimbStatus(coverage_percent, reason_codes) ==
    IF \/ coverage_percent = 0
       \/ \E i \in 1..Len(reason_codes) : IsSubstr(DIAGNOSIS_NOT_COVERED, reason_codes[i])
    THEN NOT_APPROVED
    ELSE IF reason_codes # <<>> THEN CONDITIONAL
    ELSE APPROVED

evaluate_reimbursement(policies, drug_name, diagnosis, insurance_type, claim_amount) ==
    IF ~HasReimbPolicy(policies, drug_name)
    THEN ReimbNoPolicy(drug_name)
    ELSE LET policy == DocGet(policies, "reimbursement_policies")[drug_name]
             coverage_percent == CoveragePercent(policy, insurance_type)
             max_amount == MaxAmount(policy, insurance_type)
             reason_codes == ReimbReasonCodes(policy, diagnosis, insurance_type, claim_amount)
         IN  Returned("reimbursement_status_card",
                      [drug_name |-> drug_name,
                       status |-> ReimbStatus(coverage_percent, reason_codes),
                       coverage_percent |-> coverage_percent,
                       approved_amount |-> ApprovedAmount(claim_amount, coverage_percent, max_amount),
                       reason_codes |-> reason_codes],
                      <<"evaluate_reimbursement">>)

\* NoPolicies with the short-circuit never taken.
NoPolicies_NoShortCircuit(policies, drug_name) == FALSE

\* The short-circuit test of generate_report.
NoPolicies(policies, drug_name) ==
    ~HasTrialPolicy(policies, drug_name) /\ ~HasReimbPolicy(policies, drug_name)

\* TrialEnablementCard(**card) validates: the required fields are present.
ValidTrialCard(card) ==
    {"drug_name", "status", "reason_codes", "required_documents"} \subseteq DOMAIN card

\* ReimbursementStatusCard(**card) validates: the required fields are present.
ValidReimbCard(card) ==
    {"drug_name", "status", "coverage_percent", "approved_amount", "reason_codes"} \subseteq DOMAIN card

\* " | ".join(summary_parts)
Summary(drug_name, trial_card, reimb_card) ==
    Join(Pipe, <<DrugLabel \o drug_name,
                 TrialLabel \o Get(trial_card, "status", NotAvailable),
                 ReimbLabel \o Get(reimb_card, "status", NotAvailable)>>)

\* generate_report with a cross rule: a reimbursement that is NOT_APPROVED
\* turns the trial part NOT_APPROVED too.
generate_report_CrossRule(policies, drug_name, diagnosis, patient_age, insurance_type, claim_amount, prior_treatments, now) ==
    IF NoPolicies(policies, drug_name)
    THEN Returned("refusal_card", NoPolicyCard(NoPoliciesText, drug_name), <<>>)
    ELSE LET trial_result == _evaluate_trial_eligibility(
                                 policies, drug_name, diagnosis, patient_age, prior_treatments)
             reimb_result == evaluate_reimbursement(
                                 policies, drug_name, diagnosis, insurance_type, claim_amount)
         IN  IF trial_result.kind = "raise"
             THEN Raised(trial_result.exc, trial_result.invoked)
             ELSE IF ~ValidTrialCard(trial_result.card) \/ ~ValidReimbCard(reimb_result.card)
             THEN Raised("ValidationError", trial_result.invoked \o reimb_result.invoked)
             ELSE LET trial_card ==
                          IF reimb_result.card.status = NOT_APPROVED
                          THEN [trial_result.card EXCEPT !.status = NOT_APPROVED]
                          ELSE trial_result.card
                  IN  Returned("policy_report_card",
                               [trial_eligibility |-> trial_card,
                                reimbursement |-> reimb_result.card,
                                generated_at |-> now,
                                summary |-> Summary(drug_name, trial_card, reimb_result.card)],
                               trial_result.invoked \o reimb_result.invoked)

\* The part of generate_report after the two sub-evaluations: the cards are
\* validated and packaged with the summary and the timestamp.
PackageReport(drug_name, trial_result, reimb_result, now) ==
    IF trial_result.kind = "raise"
    THEN Raised(trial_result.exc, trial_result.invoked)
    ELSE IF reimb_result.kind = "raise"
    THEN Raised(reimb_result.exc, trial_result.invoked \o reimb_result.invoked)
    ELSE IF ~ValidTrialCard(trial_result.card) \/ ~ValidReimbCard(reimb_result.card)
    THEN Raised("ValidationError", trial_result.invoked \o reimb_result.invoked)
    ELSE Returned("policy_report_card",
                  [trial_eligibility |-> trial_result.card,
                   reimbursement |-> reimb_result.card,
                   generated_at |-> now,
                   summary |-> Summary(drug_name, trial_result.card, reimb_result.card)],
                  trial_result.invoked \o reimb_result.invoked)

generate_report(policies, drug_name, diagnosis, patient_age, insurance_type, claim_amount, prior_treatments, now) ==
    IF NoPolicies(policies, drug_name)
    THEN Returned("refusal_card", NoPolicyCard(NoPoliciesText, drug_name), <<>>)
    ELSE PackageReport(drug_name,
                       _evaluate_trial_eligibility(
                           policies, drug_name, diagnosis, patient_age, prior_treatments),
                       evaluate_reimbursement(
                           policies, drug_name, diagnosis, insurance_type, claim_amount),
                       now)

---------------------------------------------------------------------------
(* The process: the policy file on disk, the module-level cache, and the   *)
(* last call with what it handed back.                                     *)

NoResponse ==
    [kind |-> "pending", exc |-> "", card_type |-> "", card |-> [blocked |-> FALSE], invoked |-> <<>>]

TrialRequest(drug_name, diagnosis, patient_age, prior_treatments) ==
    [op |-> "trial", drug_name |-> drug_name, diagnosis |-> diagnosis,
     patient_age |-> patient_age, insurance_type |-> <<>>, claim_amount |-> 0,
     prior_treatments |-> prior_treatments]

ReimbRequest(drug_name, diagnosis, insurance_type, claim_amount) ==
    [op |-> "reimbursement", drug_name |-> drug_name, diagnosis |-> diagnosis,
     patient_age |-> 0, insurance_type |-> insurance_type, claim_amount |-> claim_amount,
     prior_treatments |-> <<>>]

ReportRequest(drug_name, diagnosis, patient_age, insurance_type, claim_amount, prior_treatments) ==
    [op |-> "report", drug_name |-> drug_name, diagnosis |-> diagnosis,
     patient_age |-> patient_age, insurance_type |-> insurance_type,
     claim_amount |-> claim_amount, prior_treatments |-> prior_treatments]

NoRequest ==
    [op |-> "none", drug_name |-> <<>>, diagnosis |-> <<>>, patient_age |-> 0,
     insurance_type |-> <<>>, claim_amount |-> 0, prior_treatments |-> <<>>]

\* The number of times one _load_policies call opens the file.
FileReads(cache) == IF cache.keys = {} THEN 1 ELSE 0

\* open / json.load raise inside _load_policies: the cache is falsy and the
\* file cannot be parsed.
LoadRaises(cache, file) == cache.keys = {} /\ "error" \in DOMAIN file

\* What an evaluator call does when its _load_policies raises: the exception
\* leaves the evaluator and the cache keeps its value.
LoadFailure ==
    /\ _policies' = _policies
    /\ response' = Raised(policy_file.error, <<>>)

\* CallTrial taking the record out of the store (pop) instead of reading it.
CallTrial_PopsRecord(req) ==
    /\ reads' = reads + FileReads(_policies)
    /\ IF LoadRaises(_policies, policy_file)
       THEN LoadFailure
       ELSE LET policies == _load_policies(_policies, policy_file)
                kept == DOMAIN policies.trial_policies \ {req.drug_name}
            IN  /\ _policies' = [policies EXCEPT !.trial_policies = [d \in kept |-> @[d]]]
                /\ response' = _evaluate_trial_eligibility(
                                   policies, req.drug_name, req.diagnosis, req.patient_age,
                                   req.prior_treatments)

\* One call of the trial evaluator: the lazy load, then the evaluation.
CallTrial(req) ==
    /\ reads' = reads + FileReads(_policies)
    /\ IF LoadRaises(_policies, policy_file)
       THEN LoadFailure
       ELSE LET policies == _load_policies(_policies, policy_file)
            IN  /\ _policies' = policies
                /\ response' = _evaluate_trial_eligibility(
                                   policies, req.drug_name, req.diagnosis, req.patient_age,
                                   req.prior_treatments)

\* One call of evaluate_reimbursement.
CallReimbursement(req) ==
    /\ reads' = reads + FileReads(_policies)
    /\ IF LoadRaises(_policies, policy_file)
       THEN LoadFailure
       ELSE LET policies == _load_policies(_policies, policy_file)
            IN  /\ _policies' = policies
                /\ response' = evaluate_reimbursement(
                                   policies, req.drug_name, req.diagnosis, req.insurance_type,
                                   req.claim_amount)

\* One call of generate_report; now is the clock reading it stamps.  The
\* sub-evaluators call _load_policies again and find the cache filled: with
\* an empty document the report has already short-circuited.
CallReport(req, now) ==
    /\ reads' = reads + FileReads(_policies)
    /\ IF LoadRaises(_policies, policy_file)
       THEN LoadFailure
       ELSE LET policies == _load_policies(_policies, policy_file)
            IN  /\ _policies' = policies
                /\ response' = generate_report(
                                   policies, req.drug_name, req.diagnosis, req.patient_age,
                                   req.insurance_type, req.claim_amount, req.prior_treatments, now)

\* No call remembered yet.
NoCall == [request |-> NoRequest, response |-> NoResponse, reads |-> 0]

\* No endpoint answered yet.
NoHttp == [status |-> 0, body |-> NoResponse, calls |-> 0]

\* The number of threads that call the evaluators concurrently.
NumThreads == 2

Threads == 1..NumThreads

\* A thread that is not inside an evaluator.  While it is inside one: pc is
\* the statement of _load_policies it is at, phase the evaluator whose
\* _load_policies call that is (generate_report, then the two sub-evaluators
\* it calls), parsed and policies the values of its local variables, warm
\* whether the cache was filled when the call began, overlaps whether another
\* call was in flight when it began.
IdleThread ==
    [pc |-> "idle", phase |-> "main", request |-> NoRequest, warm |-> FALSE,
     overlaps |-> FALSE, parsed |-> EmptyDoc, policies |-> EmptyDoc, trial_result |-> NoResponse,
     response |-> NoResponse]

NoThreads == [t \in Threads |-> IdleThread]

\* Optional[...] values: None, or the value.
None == <<>>
Some(x) == <<x>>

\* No Gemini client, no call of _call_llm.
NoLlm ==
    [api_key |-> FALSE, sdk |-> FALSE, _gemini_client |-> FALSE,
     _GEMINI_MODEL |-> "gemini-2.0-flash", _GEMINI_FALLBACK_MODEL |-> "gemini-2.5-flash",
     pc |-> "idle", user_prompt |-> "", calls |-> <<>>, result |-> None, raised |-> FALSE]

\* No coverage display built.
NoCoverage ==
    [call |-> "none", reimbursement_card |-> None, insurance_type |-> None,
     coverage_display |-> None]

\* The longest run of file reads a process is followed through.
MaxReads == 3

\* The process starts with an empty cache and serves calls one after another.
Init ==
    /\ \E i \in 1..Len(FileContents) : policy_file = FileContents[i]
    /\ _policies = EmptyDoc
    /\ request = NoRequest
    /\ response = NoResponse
    /\ reads = 0
    /\ earlier = NoCall
    /\ _audit_log = <<>>
    /\ http_response = NoHttp
    /\ threads = NoThreads
    /\ llm = NoLlm
    /\ coverage = NoCoverage

\* The calls a process is followed through: a drug with both records and a
\* drug with a trial record only, so that the three documents answer each
\* call differently.
ServedDrugs == {S_Ciplar, S_Trialin}
ServedDiagnoses == {S_hypertension}
ServedAges == {18, 70}
ServedPrior == {<<>>}
ServedInsurance == {S_corporate}
ServedClaims == {5000, 20000}

\* A call is followed while the file reads it may make stay within MaxReads.
ReadsWithinBound == reads + FileReads(_policies) <= MaxReads

\* The call being made is either kept as the earlier call that later calls
\* are compared with, or not.
Remember ==
    \E keep \in BOOLEAN :
        earlier' = IF keep
                   THEN [request |-> request', response |-> response', reads |-> reads']
                   ELSE earlier

EvaluateTrial ==
    \E d \in ServedDrugs, g \in ServedDiagnoses, a \in ServedAges, p \in ServedPrior :
        /\ ReadsWithinBound
        /\ request' = TrialRequest(d, g, a, p)
        /\ CallTrial(request')
        /\ Remember
        /\ UNCHANGED <<policy_file, _audit_log, http_response, threads, llm, coverage>>

EvaluateReimbursement ==
    \E d \in ServedDrugs, g \in ServedDiagnoses, t \in ServedInsurance, c \in ServedClaims :
        /\ ReadsWithinBound
        /\ request' = ReimbRequest(d, g, t, c)
        /\ CallReimbursement(request')
        /\ Remember
        /\ UNCHANGED <<policy_file, _audit_log, http_response, threads, llm, coverage>>

GenerateReport ==
    \E d \in ServedDrugs, g \in ServedDiagnoses, a \in ServedAges, t \in ServedInsurance,
       p \in ServedPrior, now \in Timestamps :
        /\ ReadsWithinBound
        /\ request' = ReportRequest(d, g, a, t, 5000, p)
        /\ CallReport(request', now)
        /\ Remember
        /\ UNCHANGED <<policy_file, _audit_log, http_response, threads, llm, coverage>>

\* The file on disk is replaced while the process runs.
RewriteFile ==
    /\ \E i \in 1..Len(FileContents) :
          /\ FileContents[i] # policy_file
          /\ policy_file' = FileContents[i]
    /\ UNCHANGED <<_policies, request, response, reads, earlier, _audit_log, http_response, threads, llm, coverage>>

Next == EvaluateTrial \/ EvaluateReimbursement \/ GenerateReport \/ RewriteFile

Spec == Init /\ [][Next]_vars

---------------------------------------------------------------------------
(* The evaluators as functions of one request: the request and the cache   *)
(* state (cold or already loaded) are drawn at the start, one call is made.*)

ReportDiagnoses == {S_hypertension, S_Renal_failure}
ReportAges == {18, 70}
ReportInsurance == {S_corporate, S_government, S_none}
ReportClaims == {5000, 20000}
ReportPrior == {<<>>, <<S_metformin>>, <<S_Chemotherapy, S_Statin>>}

Requests ==
    {TrialRequest(d, g, a, p) :
        d \in DrugNames, g \in Diagnoses, a \in Ages, p \in PriorLists}
    \cup
    {ReimbRequest(d, g, t, c) :
        d \in DrugNames, g \in Diagnoses, t \in InsuranceTypes, c \in ClaimAmounts}
    \cup
    {ReportRequest(d, g, a, t, c, p) :
        d \in DrugNames, g \in ReportDiagnoses, a \in ReportAges, t \in ReportInsurance,
        c \in ReportClaims, p \in ReportPrior}

InitEval ==
    /\ \E i \in 1..Len(PolicyFiles) : policy_file = PolicyFiles[i]
    /\ _policies \in {EmptyDoc, policy_file}
    /\ request \in Requests
    /\ response = NoResponse
    /\ reads = IF _policies.keys = {} THEN 0 ELSE 1
    /\ earlier = NoCall
    /\ _audit_log = <<>>
    /\ http_response = NoHttp
    /\ threads = NoThreads
    /\ llm = NoLlm
    /\ coverage = NoCoverage

ApplyTrial ==
    /\ response.kind = "pending"
    /\ request.op = "trial"
    /\ CallTrial(request)
    /\ UNCHANGED <<policy_file, request, earlier, _audit_log, http_response, threads, llm, coverage>>

ApplyReimbursement ==
    /\ response.kind = "pending"
    /\ request.op = "reimbursement"
    /\ CallReimbursement(request)
    /\ UNCHANGED <<policy_file, request, earlier, _audit_log, http_response, threads, llm, coverage>>

ApplyReport ==
    /\ response.kind = "pending"
    /\ request.op = "report"
    /\ \E now \in Timestamps : CallReport(request, now)
    /\ UNCHANGED <<policy_file, request, earlier, _audit_log, http_response, threads, llm, coverage>>

NextEval == ApplyTrial \/ ApplyReimbursement \/ ApplyReport

SpecEval == InitEval /\ [][NextEval]_vars

---------------------------------------------------------------------------
(* The policy endpoints (app/routes/policy.py) and the audit log           *)
(* (app/core/audit.py).  A handler calls the evaluator, then log_event,    *)
(* then returns the envelope; neither call is guarded, so an exception of  *)
(* either leaves the handler and the framework answers 500.  log_event     *)
(* appends to a list that nothing trims; its failure is the exception an   *)
(* append raises when the list cannot grow.                                *)

\* f"{x}" for a float x with a whole value
FormatFloat(n) == FormatNumber(n) \o <<".", "0">>

\* The entry log_event builds; source_ids defaults to [].
AuditEntry(engine, endpoint, input_summary, output_type, now) ==
    [timestamp |-> now, engine |-> engine, endpoint |-> endpoint,
     input_summary |-> input_summary, output_type |-> output_type, source_ids |-> <<>>]

\* log_event: _audit_log.append(entry)
log_event(log, engine, endpoint, input_summary, output_type, now) ==
    Append(log, AuditEntry(engine, endpoint, input_summary, output_type, now))

\* input_summary of POST /policy/reimbursement-evaluation
ReimbInputSummary(req) ==
    req.drug_name \o <<"|">> \o req.diagnosis \o <<"|">> \o req.insurance_type
    \o <<"|">> \o FormatFloat(req.claim_amount)

\* input_summary of POST /policy/report/generate
ReportInputSummary(req) ==
    req.drug_name \o <<"|">> \o req.diagnosis \o <<"|", "a", "g", "e", "=">>
    \o FormatNumber(req.patient_age)

\* The endpoint of a request.
Endpoint(req) ==
    IF req.op = "reimbursement" THEN "/policy/reimbursement-evaluation"
    ELSE "/policy/report/generate"

\* The answer to the caller: the dumped envelope, or 500 for an exception
\* that left the handler.
Ok200(result) == [status |-> 200, body |-> result, calls |-> http_response.calls + 1]
Error500 == [status |-> 500, body |-> NoResponse, calls |-> http_response.calls + 1]

\* The part of a handler after the evaluator call: log_event, then return.
\* logged is FALSE when log_event raises.
LogAndReturn(req, input_summary, now, logged) ==
    IF response'.kind = "raise"
    THEN /\ _audit_log' = _audit_log
         /\ http_response' = Error500
    ELSE IF logged
    THEN /\ _audit_log' = log_event(_audit_log, "policy_reimbursement", Endpoint(req),
                                    input_summary, response'.card_type, now)
         /\ http_response' = Ok200(response')
    ELSE /\ _audit_log' = _audit_log
         /\ http_response' = Error500

\* The longest run of endpoint calls a process is followed through.
MaxCalls == 2

RouteDrugs == {S_Ciplar, S_Trialin, S_Nodrug}
RouteInsurance == {S_corporate, S_none}

\* POST /policy/reimbursement-evaluation
reimbursement_evaluation ==
    \E d \in RouteDrugs, t \in RouteInsurance, now \in Timestamps, logged \in BOOLEAN :
        /\ http_response.calls < MaxCalls
        /\ ReadsWithinBound
        /\ request' = ReimbRequest(d, S_hypertension, t, 5000)
        /\ CallReimbursement(request')
        /\ LogAndReturn(request', ReimbInputSummary(request'), now, logged)
        /\ UNCHANGED <<policy_file, earlier, threads, llm, coverage>>

\* POST /policy/report/generate
report_generate ==
    \E d \in RouteDrugs, stamp \in Timestamps, now \in Timestamps, logged \in BOOLEAN :
        /\ http_response.calls < MaxCalls
        /\ ReadsWithinBound
        /\ request' = ReportRequest(d, S_hypertension, 18, S_corporate, 5000, <<S_metformin>>)
        /\ CallReport(request', stamp)
        /\ LogAndReturn(request', ReportInputSummary(request'), now, logged)
        /\ UNCHANGED <<policy_file, earlier, threads, llm, coverage>>

InitRoutes ==
    /\ \E i \in 1..Len(PolicyFiles) : policy_file = PolicyFiles[i]
    /\ _policies = EmptyDoc
    /\ request = NoRequest
    /\ response = NoResponse
    /\ reads = 0
    /\ earlier = NoCall
    /\ _audit_log = <<>>
    /\ http_response = NoHttp
    /\ threads = NoThreads
    /\ llm = NoLlm
    /\ coverage = NoCoverage

NextRoutes == reimbursement_evaluation \/ report_generate

SpecRoutes == InitRoutes /\ [][NextRoutes]_vars

(***************************************************************************)
(* Evaluator calls on concurrent threads.  The engine takes no lock: a    *)
(* thread may be preempted between any two statements of _load_policies   *)
(* and between the _load_policies calls of generate_report and of the     *)
(* evaluators it calls.  Each statement is one step; the evaluation that  *)
(* follows a load only reads the dictionary the load returned.  The file  *)
(* on disk stays as deployed while the calls run.                         *)
(***************************************************************************)

\* The calls the threads make: an evaluator called directly, and the report,
\* which calls both evaluators.
ThreadRequests ==
    {TrialRequest(S_Ciplar, S_hypertension, 18, <<>>),
     ReportRequest(S_Ciplar, S_hypertension, 18, S_corporate, 5000, <<S_metformin>>)}

InFlight(t) == threads[t].pc \notin {"idle", "done"}

\* A thread enters an evaluator, whose first statement calls _load_policies.
ThreadStart(t) ==
    /\ threads[t].pc = "idle"
    /\ \E req \in ThreadRequests :
           threads' = [threads EXCEPT ![t] =
                          [IdleThread EXCEPT !.pc = "test", !.request = req,
                                             !.warm = (_policies.keys # {}),
                                             !.overlaps = (\E u \in Threads \ {t} : InFlight(u))]]
    /\ UNCHANGED <<policy_file, _policies, request, response, reads, earlier, _audit_log, http_response, llm, coverage>>

\* `if not _policies:`
ThreadTest(t) ==
    /\ threads[t].pc = "test"
    /\ threads' = [threads EXCEPT ![t].pc = IF _policies.keys = {} THEN "open" ELSE "return"]
    /\ UNCHANGED <<policy_file, _policies, request, response, reads, earlier, _audit_log, http_response, llm, coverage>>

\* `with open(_POLICY_PATH, ...) as f:` and the evaluation of json.load(f):
\* the whole document is parsed into a new dictionary.
ThreadOpen(t) ==
    /\ threads[t].pc = "open"
    /\ reads' = reads + 1
    /\ threads' = [threads EXCEPT ![t].pc = "assign", ![t].parsed = policy_file]
    /\ UNCHANGED <<policy_file, _policies, request, response, earlier, _audit_log, http_response, llm, coverage>>

\* The store after the cache is filled in place, one collection at a time,
\* instead of being bound to the parsed document.
StoreAfterAssign_InPlace(cache, parsed) ==
    [cache EXCEPT !.keys = @ \cup (parsed.keys \cap {"trial_policies"}),
                  !.trial_policies = parsed.trial_policies]

\* `_policies = json.load(f)`: the global name is bound to the parsed
\* dictionary in one store.
StoreAfterAssign(cache, parsed) == parsed

ThreadAssign(t) ==
    /\ threads[t].pc = "assign"
    /\ _policies' = StoreAfterAssign(_policies, threads[t].parsed)
    /\ threads' = [threads EXCEPT ![t].pc = "return"]
    /\ UNCHANGED <<policy_file, request, response, reads, earlier, _audit_log, http_response, llm, coverage>>

\* `return _policies`: the global is read again, and the evaluator keeps the
\* dictionary in its local `policies`.
ThreadReturn(t) ==
    /\ threads[t].pc = "return"
    /\ threads' = [threads EXCEPT ![t].pc = "eval", ![t].policies = _policies]
    /\ UNCHANGED <<policy_file, _policies, request, response, reads, earlier, _audit_log, http_response, llm, coverage>>

\* The thread's call is over with this result.
Done(th, result) == [th EXCEPT !.pc = "done", !.response = result]

\* The thread goes on to the _load_policies call of the next evaluator.
Enter(th, phase) == [th EXCEPT !.pc = "test", !.phase = phase]

\* The statements of an evaluator after its _load_policies call, on the
\* dictionary the call returned; in generate_report they end at the call of
\* the next evaluator.
AfterLoad(th, now) ==
    LET req == th.request
        trial == _evaluate_trial_eligibility(
                     th.policies, req.drug_name, req.diagnosis, req.patient_age,
                     req.prior_treatments)
        reimb == evaluate_reimbursement(
                     th.policies, req.drug_name, req.diagnosis, req.insurance_type,
                     req.claim_amount)
    IN  IF req.op = "trial" THEN Done(th, trial)
        ELSE IF req.op = "reimbursement" THEN Done(th, reimb)
        ELSE IF th.phase = "main"
        THEN IF NoPolicies(th.policies, req.drug_name)
             THEN Done(th, Returned("refusal_card",
                                    NoPolicyCard(NoPoliciesText, req.drug_name), <<>>))
             ELSE Enter(th, "trial")
        ELSE IF th.phase = "trial"
        THEN IF trial.kind = "raise"
             THEN Done(th, trial)
             ELSE Enter([th EXCEPT !.trial_result = trial], "reimbursement")
        ELSE Done(th, PackageReport(req.drug_name, th.trial_result, reimb, now))

\* An evaluation that removes the drug's trial record from the store.
ThreadEvaluate_PopsRecord(t) ==
    /\ threads[t].pc = "eval"
    /\ \E now \in Timestamps :
           threads' = [threads EXCEPT ![t] = AfterLoad(threads[t], now)]
    /\ LET kept == DOMAIN _policies.trial_policies \ {threads[t].request.drug_name}
       IN  _policies' = [_policies EXCEPT !.trial_policies = [d \in kept |-> @[d]]]
    /\ UNCHANGED <<policy_file, request, response, reads, earlier, _audit_log, http_response, llm, coverage>>

ThreadEvaluate(t) ==
    /\ threads[t].pc = "eval"
    /\ \E now \in Timestamps :
           threads' = [threads EXCEPT ![t] = AfterLoad(threads[t], now)]
    /\ UNCHANGED <<policy_file, _policies, request, response, reads, earlier, _audit_log, http_response, llm, coverage>>

\* The process is up with the cache empty or already filled by an earlier
\* call, and no call in flight.
InitThreads ==
    /\ \E i \in 1..Len(PolicyFiles) : policy_file = PolicyFiles[i]
    /\ _policies \in {EmptyDoc, policy_file}
    /\ reads = IF _policies.keys = {} THEN 0 ELSE 1
    /\ request = NoRequest
    /\ response = NoResponse
    /\ earlier = NoCall
    /\ _audit_log = <<>>
    /\ http_response = NoHttp
    /\ threads = NoThreads
    /\ llm = NoLlm
    /\ coverage = NoCoverage

NextThreads ==
    \E t \in Threads :
        \/ ThreadStart(t)
        \/ ThreadTest(t)
        \/ ThreadOpen(t)
        \/ ThreadAssign(t)
        \/ ThreadReturn(t)
        \/ ThreadEvaluate(t)

SpecThreads == InitThreads /\ [][NextThreads]_vars

(***************************************************************************)
(* _call_llm of the LLM adapter: the lazily created Gemini client, the    *)
(* call of the primary model and the call of the fallback model.  What a  *)
(* model call does (it raises, or it answers with a text or with none) is *)
(* an input; each model call is one step.                                 *)
(***************************************************************************)

\* What client.models.generate_content can do: raise, or return a response
\* whose text is None or a string.
Replies ==
    {[raises |-> "RuntimeError", text |-> None],
     [raises |-> "ServerError", text |-> None],
     [raises |-> "", text |-> None],
     [raises |-> "", text |-> Some(<<>>)],
     [raises |-> "", text |-> Some(<<" ", " ">>)],
     [raises |-> "", text |-> Some(<<"o", "k">>)],
     [raises |-> "", text |-> Some(<<" ", "o", "k", " ">>)],
     [raises |-> "", text |-> Some(<<"n", "o">>)]}

UserPrompts == {"describe", "mechanism"}

\* The values the environment gives GEMINI_FALLBACK_MODEL.
FallbackModels == {"gemini-2.5-flash", "gemini-2.0-flash"}

\* str.strip()
RECURSIVE StripLeft(_)
StripLeft(s) == IF s # <<>> /\ Head(s) = " " THEN StripLeft(Tail(s)) ELSE s

RECURSIVE StripRight(_)
StripRight(s) ==
    IF s # <<>> /\ s[Len(s)] = " " THEN StripRight(SubSeq(s, 1, Len(s) - 1)) ELSE s

Strip(s) == StripRight(StripLeft(s))

\* _get_gemini_client: the singleton when there is one, None without an API
\* key or when the SDK cannot be imported, else a new client.
_get_gemini_client(l) == l._gemini_client \/ (l.api_key /\ l.sdk)

\* What _call_gemini_with_model returns for a response: the stripped text,
\* or None for no text and for a text that is empty once stripped.
_call_gemini_with_model(reply) ==
    IF reply.text = None THEN None
    ELSE IF Strip(reply.text[1]) = <<>> THEN None
    ELSE Some(Strip(reply.text[1]))

\* The fallback model is tried whatever its name.
TryFallback_AnyName(l) == TRUE

\* `if _GEMINI_FALLBACK_MODEL != _GEMINI_MODEL:`
TryFallback(l) == l._GEMINI_FALLBACK_MODEL # l._GEMINI_MODEL

\* _call_llm up to the first model call: the client is looked up.
call_llm_begin ==
    /\ llm.pc = "idle"
    /\ \E prompt \in UserPrompts :
           llm' = [llm EXCEPT !._gemini_client = _get_gemini_client(llm),
                              !.user_prompt = prompt,
                              !.calls = <<>>,
                              !.result = None,
                              !.pc = IF _get_gemini_client(llm) THEN "primary" ELSE "done"]
    /\ UNCHANGED <<policy_file, _policies, request, response, reads, earlier, _audit_log, http_response, threads, coverage>>

\* One model call inside its try block, and what _call_llm does next: it
\* returns a non-empty result, else goes on to `next`.
ModelCall(l, model, reply, next) ==
    LET made == [l EXCEPT !.calls = Append(@, [model |-> model, reply |-> reply])]
        text == _call_gemini_with_model(reply)
    IN  IF reply.raises = "" /\ text # None
        THEN [made EXCEPT !.pc = "done", !.result = text]
        ELSE [made EXCEPT !.pc = next]

\* The primary model is called.
call_llm_primary ==
    /\ llm.pc = "primary"
    /\ \E reply \in Replies :
           llm' = ModelCall(llm, llm._GEMINI_MODEL, reply,
                            IF TryFallback(llm) THEN "fallback" ELSE "done")
    /\ UNCHANGED <<policy_file, _policies, request, response, reads, earlier, _audit_log, http_response, threads, coverage>>

\* The fallback model is called.
call_llm_fallback ==
    /\ llm.pc = "fallback"
    /\ \E reply \in Replies :
           llm' = ModelCall(llm, llm._GEMINI_FALLBACK_MODEL, reply, "done")
    /\ UNCHANGED <<policy_file, _policies, request, response, reads, earlier, _audit_log, http_response, threads, coverage>>

\* The caller has the result; the next call of _call_llm may begin.
call_llm_return ==
    /\ llm.pc = "done"
    /\ llm' = [llm EXCEPT !.pc = "idle"]
    /\ UNCHANGED <<policy_file, _policies, request, response, reads, earlier, _audit_log, http_response, threads, coverage>>

\* The process starts with the environment's configuration and no client.
InitLlm ==
    /\ policy_file = PoliciesA
    /\ _policies = EmptyDoc
    /\ request = NoRequest
    /\ response = NoResponse
    /\ reads = 0
    /\ earlier = NoCall
    /\ _audit_log = <<>>
    /\ http_response = NoHttp
    /\ threads = NoThreads
    /\ coverage = NoCoverage
    /\ \E key \in BOOLEAN, sdk \in BOOLEAN, fallback \in FallbackModels :
           llm = [NoLlm EXCEPT !.api_key = key, !.sdk = sdk,
                               !._GEMINI_FALLBACK_MODEL = fallback]

NextLlm == call_llm_begin \/ call_llm_primary \/ call_llm_fallback \/ call_llm_return

SpecLlm == InitLlm /\ [][NextLlm]_vars

(***************************************************************************)
(* The coverage display of the orchestration layer, and the part of      *)
(* POST /api/drug-profile that builds it: the reimbursement evaluation,   *)
(* enrich_coverage_display, the audit entry and the response.  The        *)
(* process has no Gemini API key, so the spelling correction leaves the   *)
(* drug name as requested; the slots filled from product intelligence,    *)
(* the guardrails and the LLM fallbacks are not part of the response      *)
(* modelled here, and the identity card brings no source_ids.             *)
(***************************************************************************)

\* _STATUS_COLOR_MAP with CONDITIONAL shown as a refusal.
StatusColor_NoYellow(status) ==
    IF status = APPROVED THEN "green" ELSE "red"

\* _STATUS_COLOR_MAP.get(status, "red")
StatusColor(status) ==
    IF status = APPROVED THEN "green"
    ELSE IF status = CONDITIONAL THEN "yellow"
    ELSE "red"

\* The keys of _INSURANCE_SCHEME_MAP
SchemeKeys == {S_government, S_corporate, S_private}

PercentCoverage == <<"%", " ", "C", "o", "v", "e", "r", "a", "g", "e">>

\* CoverageDisplaySlot(): the three slots are None.
EmptyCoverageDisplay == [government |-> None, corporate |-> None, private |-> None]

\* enrich_coverage_display; the coverage percentages of the rule records are
\* whole numbers, which `:.0f` prints as they are.
enrich_coverage_display(reimbursement_card, insurance_type) ==
    IF reimbursement_card = None \/ insurance_type = None
    THEN None
    ELSE LET card == reimbursement_card[1]
             status == Get(card, "status", NOT_APPROVED)
             color == StatusColor(status)
             coverage_pct == Get(card, "coverage_percent", 0)
             scheme == [status |-> status, color |-> color,
                        label |-> FormatNumber(coverage_pct) \o PercentCoverage]
         IN  IF insurance_type[1] \notin SchemeKeys
             THEN None
             ELSE IF insurance_type[1] = S_government
             THEN Some([EmptyCoverageDisplay EXCEPT !.government = Some(scheme)])
             ELSE IF insurance_type[1] = S_corporate
             THEN Some([EmptyCoverageDisplay EXCEPT !.corporate = Some(scheme)])
             ELSE Some([EmptyCoverageDisplay EXCEPT !.private = Some(scheme)])

S_Corporate == <<"C", "o", "r", "p", "o", "r", "a", "t", "e">>

\* The cards the evaluator produces, the refusal card included.
EnrichCards ==
    {None} \cup
    {Some(evaluate_reimbursement(PoliciesA, d, g, t, a).card) :
        d \in {S_Ciplar, S_Reimbol, S_Nodrug}, g \in Diagnoses,
        t \in InsuranceTypes, a \in ClaimAmounts}

EnrichInsurance ==
    {None, Some(S_government), Some(S_corporate), Some(S_private), Some(S_none),
     Some(S_Corporate), Some(<<>>)}

\* enrich_coverage_display is applied to the arguments drawn.
ApplyEnrich ==
    /\ coverage.call = "none"
    /\ coverage' = [coverage EXCEPT
                       !.call = "enrich",
                       !.coverage_display =
                           enrich_coverage_display(coverage.reimbursement_card,
                                                   coverage.insurance_type)]
    /\ UNCHANGED <<policy_file, _policies, request, response, reads, earlier, _audit_log, http_response, threads, llm>>

InitCoverage ==
    /\ policy_file = PoliciesA
    /\ _policies = EmptyDoc
    /\ request = NoRequest
    /\ response = NoResponse
    /\ reads = 0
    /\ earlier = NoCall
    /\ _audit_log = <<>>
    /\ http_response = NoHttp
    /\ threads = NoThreads
    /\ llm = NoLlm
    /\ \E card \in EnrichCards, insurance_type \in EnrichInsurance :
           coverage = [NoCoverage EXCEPT !.reimbursement_card = card,
                                         !.insurance_type = insurance_type]

NextCoverage == ApplyEnrich

SpecCoverage == InitCoverage /\ [][NextCoverage]_vars

\* A DrugProfileRequest; the optional fields are None or given.
ProfileRequest(drug_name, insurance_type, diagnosis, claim_amount) ==
    [op |-> "profile", drug_name |-> drug_name, diagnosis |-> diagnosis,
     patient_age |-> 0, insurance_type |-> insurance_type,
     claim_amount |-> claim_amount, prior_treatments |-> <<>>]

ProfileRequests ==
    {ProfileRequest(S_Ciplar, Some(S_corporate), Some(S_hypertension), Some(5000)),
     ProfileRequest(S_Ciplar, Some(S_corporate), Some(S_hypertension), Some(20000)),
     ProfileRequest(S_Ciplar, Some(S_corporate), Some(S_hypertension), None),
     ProfileRequest(S_Ciplar, None, None, None),
     ProfileRequest(S_Nodrug, Some(S_corporate), Some(S_hypertension), Some(5000)),
     ProfileRequest(S_Nodrug, Some(S_none), Some(S_hypertension), Some(5000))}

\* Truth value of an Optional[str]: None and "" are false.
Truthy(o) == o # None /\ o[1] # <<>>

\* `if req.insurance_type and req.diagnosis and req.claim_amount is not None:`
ReimbursementRequested(req) ==
    Truthy(req.insurance_type) /\ Truthy(req.diagnosis) /\ req.claim_amount # None

\* The arguments drug_profile passes to evaluate_reimbursement.
ProfileReimbRequest(req) ==
    ReimbRequest(req.drug_name, req.diagnosis[1], req.insurance_type[1], req.claim_amount[1])

\* Step 3 of drug_profile: `reimbursement` is the evaluator's card, whatever
\* its type; enrichment_status tells the two card types apart.
ProfileReimbursement(req, result) ==
    IF ReimbursementRequested(req) THEN Some(result.card) ELSE None

ReimbursementStatus(req, result) ==
    IF ~ReimbursementRequested(req) THEN "not_requested"
    ELSE IF result.card_type = "reimbursement_status_card" THEN "available"
    ELSE "no_policy"

\* Step 8 of drug_profile.
CoverageStatus(req, coverage_display) ==
    IF coverage_display # None THEN "available"
    ELSE IF req.insurance_type = None THEN "not_requested"
    ELSE "no_data"

\* The fields of DrugProfileResponse built from the reimbursement evaluation.
ProfileBody(req, result) ==
    LET reimbursement == ProfileReimbursement(req, result)
        coverage_display == enrich_coverage_display(reimbursement, req.insurance_type)
    IN  [reimbursement |-> reimbursement,
         coverage_display |-> coverage_display,
         enrichment_status |->
             [reimbursement |-> ReimbursementStatus(req, result),
              coverage_display |-> CoverageStatus(req, coverage_display)]]

\* input_summary of POST /api/drug-profile, with no compare_with
ProfileInputSummary(req) ==
    req.drug_name
    \o <<"|", "c", "o", "m", "p", "a", "r", "e", "=", "N", "o", "n", "e", "|", "i", "n", "s", "=">>
    \o (IF req.insurance_type = None THEN <<"N", "o", "n", "e">> ELSE req.insurance_type[1])

\* POST /api/drug-profile
drug_profile ==
    \E req \in ProfileRequests, now \in Timestamps, logged \in BOOLEAN :
        /\ http_response.calls < MaxCalls
        /\ ReadsWithinBound
        /\ request' = req
        /\ IF ReimbursementRequested(req)
           THEN CallReimbursement(ProfileReimbRequest(req))
           ELSE /\ response' = NoResponse
                /\ _policies' = _policies
                /\ reads' = reads
        /\ coverage' = [call |-> "drug_profile",
                        reimbursement_card |-> ProfileReimbursement(req, response'),
                        insurance_type |-> req.insurance_type,
                        coverage_display |-> ProfileBody(req, response').coverage_display]
        /\ IF response'.kind = "raise" \/ ~logged
           THEN /\ _audit_log' = _audit_log
                /\ http_response' = Error500
           ELSE /\ _audit_log' = log_event(_audit_log, "orchestration", "/api/drug-profile",
                                           ProfileInputSummary(req), "drug_profile", now)
                /\ http_response' = Ok200(ProfileBody(req, response'))
        /\ UNCHANGED <<policy_file, earlier, threads, llm>>

InitProfile ==
    /\ \E i \in 1..Len(PolicyFiles) : policy_file = PolicyFiles[i]
    /\ _policies = EmptyDoc
    /\ request = NoRequest
    /\ response = NoResponse
    /\ reads = 0
    /\ earlier = NoCall
    /\ _audit_log = <<>>
    /\ http_response = NoHttp
    /\ threads = NoThreads
    /\ llm = NoLlm
    /\ coverage = NoCoverage

NextProfile == drug_profile

SpecProfile == InitProfile /\ [][NextProfile]_vars

---------------------------------------------------------------------------
(* Properties.  After a call, _policies is the rule store the call         *)
(* evaluated against, request its arguments and response what it handed    *)
(* back.                                                                   *)

Answered == response.kind # "pending"

\* The drugs that have a record in a collection of the rule store.
DrugsIn(policies, collection) ==
    IF collection \in policies.keys THEN DOMAIN policies[collection] ELSE {}

\* C1: for a drug_name without an entry in trial_policies the trial
\* evaluator does not raise and returns a refusal_card with violation_type
\* "no_policy" whose reason contains the drug name; the card carries no
\* status, reason_codes, required_documents or exclusion_flags.
C1_TrialNoPolicyRefusal ==
    (/\ Answered
     /\ request.op = "trial"
     /\ request.drug_name \notin DrugsIn(_policies, "trial_policies"))
    => /\ response.kind = "return"
       /\ response.card_type = "refusal_card"
       /\ response.card.violation_type = "no_policy"
       /\ IsSubstr(request.drug_name, response.card.reason)
       /\ DOMAIN response.card
            \cap {"status", "reason_codes", "required_documents", "exclusion_flags"} = {}

\* C1 witness: the trial evaluator refused a drug that the loaded store
\* knows only in its reimbursement collection.
C1_Witness ==
    /\ Answered
    /\ request.op = "trial"
    /\ request.drug_name = S_Reimbol
    /\ S_Reimbol \in DrugsIn(_policies, "reimbursement_policies")
    /\ DrugsIn(_policies, "trial_policies") # {}
    /\ response.card_type = "refusal_card"

\* C2: for a drug_name without an entry in reimbursement_policies,
\* evaluate_reimbursement returns the no-policy refusal_card naming the drug,
\* never a reimbursement_status_card, so the result has no status at all.
C2_ReimbNoPolicyRefusal ==
    (/\ Answered
     /\ request.op = "reimbursement"
     /\ request.drug_name \notin DrugsIn(_policies, "reimbursement_policies"))
    => /\ response.kind = "return"
       /\ response.card_type = "refusal_card"
       /\ response.card.violation_type = "no_policy"
       /\ IsSubstr(request.drug_name, response.card.reason)
       /\ "status" \notin DOMAIN response.card

\* C2 witness: evaluate_reimbursement refused a drug that has a trial record
\* only, for an insurance type and diagnosis that other records cover.
C2_Witness ==
    /\ Answered
    /\ request.op = "reimbursement"
    /\ request.drug_name = S_Trialin
    /\ S_Trialin \in DrugsIn(_policies, "trial_policies")
    /\ DrugsIn(_policies, "reimbursement_policies") # {}
    /\ request.insurance_type = S_corporate
    /\ request.diagnosis = S_hypertension
    /\ request.claim_amount = 5000
    /\ response.card_type = "refusal_card"

\* C3: generate_report for a drug in neither collection returns the
\* no-policy refusal_card, enters neither sub-evaluator, and the result has
\* no trial_eligibility, reimbursement, summary or generated_at.
C3_ReportNoPolicyRefusal ==
    (/\ Answered
     /\ request.op = "report"
     /\ request.drug_name \notin DrugsIn(_policies, "trial_policies")
     /\ request.drug_name \notin DrugsIn(_policies, "reimbursement_policies"))
    => /\ response.kind = "return"
       /\ response.card_type = "refusal_card"
       /\ response.card.violation_type = "no_policy"
       /\ IsSubstr(request.drug_name, response.card.reason)
       /\ response.invoked = <<>>
       /\ DOMAIN response.card
            \cap {"trial_eligibility", "reimbursement", "summary", "generated_at"} = {}

\* C3 witness: a report was refused for an unknown drug although the loaded
\* store has records in both collections.
C3_Witness ==
    /\ Answered
    /\ request.op = "report"
    /\ request.drug_name = S_Nodrug
    /\ DrugsIn(_policies, "trial_policies") # {}
    /\ DrugsIn(_policies, "reimbursement_policies") # {}
    /\ response.card_type = "refusal_card"

\* The rule store has both collections and every record defines the fields
\* of its kind.
WellFormedStore(policies) ==
    /\ policies.keys = {"trial_policies", "reimbursement_policies"}
    /\ \A d \in DOMAIN policies.trial_policies :
          {"min_age", "max_age", "eligible_diagnoses", "required_documents"}
              \subseteq DOMAIN policies.trial_policies[d]
    /\ \A d \in DOMAIN policies.reimbursement_policies :
          {"eligible_diagnoses", "insurance_coverage"}
              \subseteq DOMAIN policies.reimbursement_policies[d]

\* C4: on a well-formed rule store generate_report never raises: it returns
\* a policy_report_card or the no-policy refusal_card, also for a drug with a
\* record in only one of the two collections.
C4_ReportNeverRaises ==
    (/\ Answered
     /\ request.op = "report"
     /\ WellFormedStore(_policies))
    => /\ response.kind = "return"
       /\ \/ response.card_type = "policy_report_card"
          \/ /\ response.card_type = "refusal_card"
             /\ response.card.violation_type = "no_policy"

\* A trial evaluation ran to completion: returned directly, or as the
\* trial_eligibility part of a report.
HasTrialResult ==
    /\ Answered
    /\ response.kind = "return"
    /\ \/ request.op = "trial" /\ response.card_type = "trial_enablement_card"
       \/ request.op = "report" /\ response.card_type = "policy_report_card"

TrialCard == IF request.op = "trial" THEN response.card ELSE response.card.trial_eligibility

TrialPolicy == _policies.trial_policies[request.drug_name]

\* The reason codes of a list that carry a tag, with the tag removed.
Tagged(reason_codes, tag) ==
    LET Has(code) == StartsWith(code, tag)
        hits == SelectSeq(reason_codes, Has)
    IN  [i \in 1..Len(hits) |-> SubSeq(hits[i], Len(tag) + 1, Len(hits[i]))]

\* An exclusion criterion occurs, ignoring case, inside the diagnosis or
\* inside at least one prior treatment.
ContainedIgnoringCase(excl, diagnosis, prior_treatments) ==
    \/ IsSubstr(Lower(excl), Lower(diagnosis))
    \/ \E i \in 1..Len(prior_treatments) : IsSubstr(Lower(excl), Lower(prior_treatments[i]))

\* C5: an exclusion criterion is flagged, and its EXCLUSION_CRITERIA code
\* appended, in store order, exactly when it is a case-insensitive substring
\* of the diagnosis or of at least one prior treatment.
C5_ExclusionBySubstring ==
    HasTrialResult =>
        LET Claimed(excl) ==
                ContainedIgnoringCase(excl, request.diagnosis, request.prior_treatments)
            expected == SelectSeq(Get(TrialPolicy, "exclusion_criteria", <<>>), Claimed)
        IN  /\ TrialCard.exclusion_flags = expected
            /\ Tagged(TrialCard.reason_codes, EXCLUSION_CRITERIA) = expected

\* The rule the code follows: containment in the diagnosis, but equality
\* (ignoring case) with a whole prior treatment.
C5_ExclusionAsCoded ==
    HasTrialResult =>
        LET Coded(excl) ==
                \/ IsSubstr(Lower(excl), Lower(request.diagnosis))
                \/ \E i \in 1..Len(request.prior_treatments) :
                       Lower(excl) = Lower(request.prior_treatments[i])
            expected == SelectSeq(Get(TrialPolicy, "exclusion_criteria", <<>>), Coded)
        IN  /\ TrialCard.exclusion_flags = expected
            /\ Tagged(TrialCard.reason_codes, EXCLUSION_CRITERIA) = expected

\* The category of a trial reason code: 1..5 in the fixed order, 0 if none.
TrialCategory(code) ==
    CASE StartsWith(code, AGE_BELOW_MIN) -> 1
      [] StartsWith(code, AGE_ABOVE_MAX) -> 2
      [] StartsWith(code, DIAGNOSIS_NOT_ELIGIBLE) -> 3
      [] StartsWith(code, MISSING_PRIOR_TREATMENT) -> 4
      [] StartsWith(code, EXCLUSION_CRITERIA) -> 5
      [] OTHER -> 0

\* a can be obtained from b by deleting entries.
RECURSIVE IsSubsequence(_, _)
IsSubsequence(a, b) ==
    IF a = <<>> THEN TRUE
    ELSE IF b = <<>> THEN FALSE
    ELSE IF Head(a) = Head(b) THEN IsSubsequence(Tail(a), Tail(b))
    ELSE IsSubsequence(a, Tail(b))

\* C6: the reason codes of every trial result are in the order
\* AGE_BELOW_MIN, AGE_ABOVE_MAX, DIAGNOSIS_NOT_ELIGIBLE,
\* MISSING_PRIOR_TREATMENT, then the EXCLUSION_CRITERIA codes in the order of
\* the record's exclusion_criteria; the first four occur at most once and no
\* other category occurs.
C6_TrialReasonCodeOrder ==
    HasTrialResult =>
        LET codes == TrialCard.reason_codes
            cat == [i \in 1..Len(codes) |-> TrialCategory(codes[i])]
        IN  /\ \A i \in 1..Len(codes) : cat[i] \in 1..5
            /\ \A i, j \in 1..Len(codes) :
                  i < j => (cat[i] < cat[j] \/ (cat[i] = 5 /\ cat[j] = 5))
            /\ IsSubsequence(Tagged(codes, EXCLUSION_CRITERIA),
                             Get(TrialPolicy, "exclusion_criteria", <<>>))

\* C6 witness: a trial result with a code of each of the five categories,
\* two of them exclusion codes.
C6_Witness ==
    /\ HasTrialResult
    /\ {TrialCategory(TrialCard.reason_codes[i]) : i \in 1..Len(TrialCard.reason_codes)} = 1..5
    /\ Len(Tagged(TrialCard.reason_codes, EXCLUSION_CRITERIA)) >= 2

\* C7: a trial result is NOT_APPROVED exactly when it has a reason code and
\* APPROVED otherwise, never CONDITIONAL, whether returned directly or inside
\* a report.
C7_TrialStatusTwoValued ==
    HasTrialResult =>
        /\ (TrialCard.reason_codes # <<>>) => TrialCard.status = NOT_APPROVED
        /\ (TrialCard.reason_codes = <<>>) => TrialCard.status = APPROVED
        /\ TrialCard.status # CONDITIONAL

\* C7 witness: a report whose trial part has exactly one reason code and is
\* NOT_APPROVED, next to a reimbursement part that is CONDITIONAL.
C7_Witness ==
    /\ HasTrialResult
    /\ request.op = "report"
    /\ Len(TrialCard.reason_codes) = 1
    /\ TrialCard.status = NOT_APPROVED
    /\ response.card.reimbursement.status = CONDITIONAL

\* C8: the age bounds are inclusive and the age codes carry the bound; a
\* request whose only violation is an age above max_age is NOT_APPROVED with
\* exactly [AGE_ABOVE_MAX:<max_age>], whatever other fields the record
\* defines beside min_age, max_age and eligible_diagnoses.
C8_AgeBounds ==
    (/\ Answered
     /\ request.op = "trial"
     /\ request.drug_name \in DrugsIn(_policies, "trial_policies"))
    => /\ HasTrialResult =>
             /\ InList(AGE_BELOW_MIN \o FormatNumber(TrialPolicy.min_age),
                       response.card.reason_codes)
                  <=> request.patient_age < TrialPolicy.min_age
             /\ InList(AGE_ABOVE_MAX \o FormatNumber(TrialPolicy.max_age),
                       response.card.reason_codes)
                  <=> request.patient_age > TrialPolicy.max_age
       /\ (/\ request.patient_age > TrialPolicy.max_age
           /\ request.patient_age >= TrialPolicy.min_age
           /\ InList(request.diagnosis, TrialPolicy.eligible_diagnoses)
           /\ ToSet(Get(TrialPolicy, "required_prior_treatments", <<>>))
                 \subseteq ToSet(request.prior_treatments)
           /\ \A i \in 1..Len(Get(TrialPolicy, "exclusion_criteria", <<>>)) :
                 ~ContainedIgnoringCase(TrialPolicy.exclusion_criteria[i],
                                        request.diagnosis, request.prior_treatments))
          => /\ response.kind = "return"
             /\ response.card_type = "trial_enablement_card"
             /\ response.card.status = NOT_APPROVED
             /\ response.card.reason_codes
                  = <<AGE_ABOVE_MAX \o FormatNumber(TrialPolicy.max_age)>>

\* The same for the records that define required_documents.
C8_AgeBoundsWithDocuments ==
    (/\ Answered
     /\ request.op = "trial"
     /\ request.drug_name \in DrugsIn(_policies, "trial_policies"))
    => ("required_documents" \in DOMAIN TrialPolicy => C8_AgeBounds)

\* A reimbursement evaluation ran to completion: returned directly, or as
\* the reimbursement part of a report.
HasReimbResult ==
    /\ Answered
    /\ response.kind = "return"
    /\ \/ request.op = "reimbursement" /\ response.card_type = "reimbursement_status_card"
       \/ request.op = "report" /\ response.card_type = "policy_report_card"

ReimbCard == IF request.op = "reimbursement" THEN response.card ELSE response.card.reimbursement

ReimbPolicy == _policies.reimbursement_policies[request.drug_name]

\* C9: with a reimbursement record whose insurance_coverage has no key
\* insurance_type, the result has coverage_percent 0, approved_amount 0,
\* status NOT_APPROVED and both INSURANCE_TYPE_UNKNOWN:<insurance_type> and
\* NO_COVERAGE among its reason codes, for every claim_amount and diagnosis.
C9_UnknownInsuranceType ==
    (/\ HasReimbResult
     /\ request.insurance_type \notin DOMAIN ReimbPolicy.insurance_coverage)
    => /\ ReimbCard.coverage_percent = 0
       /\ ReimbCard.approved_amount = 0
       /\ ReimbCard.status = NOT_APPROVED
       /\ InList(INSURANCE_TYPE_UNKNOWN \o request.insurance_type, ReimbCard.reason_codes)
       /\ InList(NO_COVERAGE, ReimbCard.reason_codes)

\* C9 witness: an eligible diagnosis and a large claim under an insurance
\* type the record does not list.
C9_Witness ==
    /\ HasReimbResult
    /\ request.op = "reimbursement"
    /\ request.insurance_type = S_none
    /\ S_none \notin DOMAIN ReimbPolicy.insurance_coverage
    /\ InList(request.diagnosis, ReimbPolicy.eligible_diagnoses)
    /\ request.claim_amount = 20000
    /\ ReimbCard.status = NOT_APPROVED

\* C10: the reimbursement status is NOT_APPROVED when coverage_percent is 0
\* or a reason code starts with DIAGNOSIS_NOT_COVERED, else CONDITIONAL when
\* there is a reason code, else APPROVED; an ineligible diagnosis is always
\* NOT_APPROVED.  (The code tests containment of the tag, not a prefix.)
C10_ReimbStatusPriority ==
    HasReimbResult =>
        LET codes == ReimbCard.reason_codes
            expected ==
                IF \/ ReimbCard.coverage_percent = 0
                   \/ \E i \in 1..Len(codes) : StartsWith(codes[i], DIAGNOSIS_NOT_COVERED)
                THEN NOT_APPROVED
                ELSE IF codes # <<>> THEN CONDITIONAL
                ELSE APPROVED
        IN  /\ ReimbCard.status = expected
            /\ ~InList(request.diagnosis, ReimbPolicy.eligible_diagnoses)
                  => ReimbCard.status = NOT_APPROVED

\* C10 witness: an ineligible diagnosis under a covering insurance type with
\* a claim above the cap: two reason codes, coverage above 0, NOT_APPROVED.
C10_Witness ==
    /\ HasReimbResult
    /\ ~InList(request.diagnosis, ReimbPolicy.eligible_diagnoses)
    /\ ReimbCard.coverage_percent > 0
    /\ Len(ReimbCard.reason_codes) = 2
    /\ ReimbCard.status = NOT_APPROVED

\* A reason code contains DIAGNOSIS_NOT_COVERED without starting with it.
C10_TagInsideCode ==
    /\ HasReimbResult
    /\ \E i \in 1..Len(ReimbCard.reason_codes) :
          /\ IsSubstr(DIAGNOSIS_NOT_COVERED, ReimbCard.reason_codes[i])
          /\ ~StartsWith(ReimbCard.reason_codes[i], DIAGNOSIS_NOT_COVERED)

\* The request of a reimbursement result meets a record that lists its
\* diagnosis and covers its insurance type with a positive percentage.
OtherwiseApproved ==
    /\ HasReimbResult
    /\ InList(request.diagnosis, ReimbPolicy.eligible_diagnoses)
    /\ CoverageFound(ReimbPolicy, request.insurance_type)
    /\ ReimbPolicy.insurance_coverage[request.insurance_type].coverage_percent > 0

\* The entry of insurance_coverage the request selects.
ReimbCoverage == ReimbPolicy.insurance_coverage[request.insurance_type]

\* The request's claim_amount is above a positive max_amount.
ClaimAboveCap ==
    /\ ReimbCoverage.max_amount > 0
    /\ request.claim_amount > ReimbCoverage.max_amount

\* C11 as stated: an otherwise-approved request whose claim_amount exceeds a
\* positive max_amount gets status CONDITIONAL, approved_amount equal to
\* max_amount, and CLAIM_EXCEEDS_MAX:<max_amount> among its reason codes.
C11_ClaimAboveCapPaysCap ==
    (OtherwiseApproved /\ ClaimAboveCap)
    => /\ ReimbCard.status = CONDITIONAL
       /\ ReimbCard.approved_amount = ReimbCoverage.max_amount * 100
       /\ InList(CLAIM_EXCEEDS_MAX \o FormatNumber(ReimbCoverage.max_amount), ReimbCard.reason_codes)

\* C11 amended: an otherwise-approved request whose claim_amount exceeds a
\* positive max_amount gets status CONDITIONAL and the single reason code
\* CLAIM_EXCEEDS_MAX:<max_amount>; approved_amount is max_amount when
\* claim_amount x coverage_percent / 100 reaches max_amount, and is that
\* covered amount (below max_amount) otherwise.
C11_ClaimAboveCapConditional ==
    (OtherwiseApproved /\ ClaimAboveCap)
    => LET covered == request.claim_amount * ReimbCoverage.coverage_percent
           cap == ReimbCoverage.max_amount * 100
       IN  /\ ReimbCard.status = CONDITIONAL
           /\ ReimbCard.reason_codes = <<CLAIM_EXCEEDS_MAX \o FormatNumber(ReimbCoverage.max_amount)>>
           /\ covered >= cap => ReimbCard.approved_amount = cap
           /\ covered < cap => ReimbCard.approved_amount = covered

\* C11 witness: 85% of a claim of 11000 is 9350, under the cap of 10000 that
\* the claim itself exceeds.
C11_Witness ==
    /\ OtherwiseApproved
    /\ ClaimAboveCap
    /\ request.claim_amount = 11000
    /\ ReimbCoverage.coverage_percent = 85
    /\ ReimbCoverage.max_amount = 10000
    /\ ReimbCard.status = CONDITIONAL
    /\ ReimbCard.approved_amount = 935000

\* An otherwise-approved claim above the cap whose covered amount reaches the
\* cap: approved_amount is max_amount.
C11_CapReached ==
    /\ OtherwiseApproved
    /\ ClaimAboveCap
    /\ ReimbCard.approved_amount = ReimbCoverage.max_amount * 100
    /\ request.claim_amount * ReimbCoverage.coverage_percent > ReimbCoverage.max_amount * 100

\* C12: every reimbursement_status_card has approved_amount =
\* min(claim_amount x coverage_percent / 100, max_amount), with coverage 0
\* and max_amount 0 for an insurance type the record does not list; the
\* amount is never negative, never above max_amount and never above
\* claim_amount.  (Amounts of the card are in hundredths.)
C12_ApprovedAmountCapped ==
    HasReimbResult =>
        LET listed == request.insurance_type \in DOMAIN ReimbPolicy.insurance_coverage
            percent == IF listed THEN ReimbCoverage.coverage_percent ELSE 0
            cap == IF listed THEN ReimbCoverage.max_amount ELSE 0
            covered == request.claim_amount * percent
        IN  /\ ReimbCard.approved_amount = (IF covered <= cap * 100 THEN covered ELSE cap * 100)
            /\ ReimbCard.approved_amount >= 0
            /\ ReimbCard.approved_amount <= cap * 100
            /\ ReimbCard.approved_amount <= request.claim_amount * 100

\* C12 witness: full coverage of a claim of 20000 under a cap of 1000 pays
\* the cap.
C12_Witness ==
    /\ HasReimbResult
    /\ request.claim_amount = 20000
    /\ CoverageFound(ReimbPolicy, request.insurance_type)
    /\ ReimbCoverage.coverage_percent = 100
    /\ ReimbCoverage.max_amount = 1000
    /\ ReimbCard.approved_amount = 100000

\* C13: with an eligible diagnosis, an insurance_coverage entry for the
\* insurance type with coverage_percent > 0 and a claim_amount not above
\* max_amount, the result is APPROVED with no reason code, coverage_percent
\* is the entry's value and approved_amount is claim_amount x
\* coverage_percent / 100.
C13_WithinCapApproved ==
    (/\ OtherwiseApproved
     /\ request.claim_amount <= ReimbCoverage.max_amount)
    => /\ ReimbCard.status = APPROVED
       /\ ReimbCard.reason_codes = <<>>
       /\ ReimbCard.coverage_percent = ReimbCoverage.coverage_percent
       /\ ReimbCard.approved_amount = request.claim_amount * ReimbCoverage.coverage_percent

\* C13 witness: 85% of 5000 under a cap of 10000 gives 4250.
C13_Witness ==
    /\ OtherwiseApproved
    /\ request.op = "reimbursement"
    /\ request.drug_name = S_Ciplar
    /\ request.diagnosis = S_hypertension
    /\ request.insurance_type = S_corporate
    /\ request.claim_amount = 5000
    /\ ReimbCard.status = APPROVED
    /\ ReimbCard.coverage_percent = 85
    /\ ReimbCard.approved_amount = 425000

\* A claim exactly at the cap is approved.
C13_AtCap ==
    /\ OtherwiseApproved
    /\ request.claim_amount = ReimbCoverage.max_amount
    /\ ReimbCard.status = APPROVED

\* Two results agree: the same envelope or the same exception; two reports
\* may differ in generated_at only.
SameOutcome(a, b) ==
    /\ a.kind = b.kind
    /\ a.exc = b.exc
    /\ a.card_type = b.card_type
    /\ IF a.card_type = "policy_report_card" /\ b.card_type = "policy_report_card"
       THEN /\ a.card.trial_eligibility = b.card.trial_eligibility
            /\ a.card.reimbursement = b.card.reimbursement
            /\ a.card.summary = b.card.summary
       ELSE a.card = b.card

\* The last call repeats the arguments of the remembered earlier call, and
\* the policy file has not been read since that call returned.
RepeatedCall ==
    /\ Answered
    /\ earlier.request = request
    /\ earlier.reads = reads

\* C14: over any sequence of evaluator calls, two calls with identical
\* arguments and no read of the policy file after the first of them return
\* identical results, whether or not the first one made the lazy load and
\* whatever calls and file changes lie between them; two reports differ at
\* most in generated_at.
C14_RepeatedCallSameResult == RepeatedCall => SameOutcome(earlier.response, response)

\* C14 witness: the first of two identical generate_report calls made the
\* only load, the file was replaced afterwards, and the two reports carry
\* different timestamps.
C14_Witness ==
    /\ RepeatedCall
    /\ reads = 1
    /\ policy_file # _policies
    /\ response.card_type = "policy_report_card"
    /\ earlier.response.card_type = "policy_report_card"
    /\ earlier.response.card.generated_at # response.card.generated_at

\* The last call ended in the exception of a failed load.
LoadFailed == response.kind = "raise" /\ response.exc = "JSONDecodeError"

\* C15: the rule store is populated once per process: once a call has got
\* its rules from _load_policies, no later step reads the policy file again,
\* whatever document was loaded (a document with no entries included).
C15_FileReadOnce == [][(Answered /\ ~LoadFailed) => reads' = reads]_vars

\* Once the cache holds a document with at least one top-level key, the file
\* is not read again.
C15_NonEmptyStoreReadOnce == [][_policies.keys # {} => reads' = reads]_vars

\* An empty document was loaded and the file has been read more than once.
C15_EmptyDocumentReread ==
    /\ Answered
    /\ ~LoadFailed
    /\ policy_file = EmptyDoc
    /\ _policies = EmptyDoc
    /\ reads > 1

\* The two collections of the rule store.
Collections == {"trial_policies", "reimbursement_policies"}

\* C16: no step of the process changes a record of the loaded rule store:
\* every policy record the store holds before a call (with its
\* eligible_diagnoses, required_documents, exclusion_criteria and
\* insurance_coverage) is in the store after the call with the same value,
\* whatever the call and its outcome.
C16_RecordsUnchanged ==
    [][\A c \in Collections :
          \A d \in DrugsIn(_policies, c) :
              /\ d \in DrugsIn(_policies', c)
              /\ _policies'[c][d] = _policies[c][d]]_vars

\* C16 witness: a call that found the store already loaded has returned
\* NOT_APPROVED, after a different call, while the file on disk holds
\* another document than the store.
C16_Witness ==
    /\ Answered
    /\ earlier.request.op # "none"
    /\ earlier.request # request
    /\ earlier.reads = reads
    /\ _policies = PoliciesA
    /\ policy_file = PoliciesB
    /\ response.card_type = "trial_enablement_card"
    /\ response.card.status = NOT_APPROVED

\* generate_report returned a report.
HasReport ==
    /\ Answered
    /\ request.op = "report"
    /\ response.kind = "return"
    /\ response.card_type = "policy_report_card"

\* C17: in a report for a drug with both records, trial_eligibility is the
\* card the trial evaluator returns alone for (drug_name, diagnosis,
\* patient_age, prior_treatments), reimbursement is the card
\* evaluate_reimbursement returns alone for (drug_name, diagnosis,
\* insurance_type, claim_amount), and summary is
\* "Drug: <drug_name> | Trial eligibility: <status> | Reimbursement: <status>".
C17_ReportPartsIndependent ==
    HasReport =>
        LET alone_trial == _evaluate_trial_eligibility(
                               _policies, request.drug_name, request.diagnosis,
                               request.patient_age, request.prior_treatments)
            alone_reimb == evaluate_reimbursement(
                               _policies, request.drug_name, request.diagnosis,
                               request.insurance_type, request.claim_amount)
        IN  /\ response.card.trial_eligibility = alone_trial.card
            /\ response.card.reimbursement = alone_reimb.card
            /\ response.card.summary =
                  DrugLabel \o request.drug_name
                  \o Pipe \o TrialLabel \o alone_trial.card.status
                  \o Pipe \o ReimbLabel \o alone_reimb.card.status

\* C17 witness: a report whose trial part is APPROVED and whose
\* reimbursement part is NOT_APPROVED.
C17_Witness ==
    /\ HasReport
    /\ request.drug_name = S_Ciplar
    /\ response.card.trial_eligibility.status = APPROVED
    /\ response.card.reimbursement.status = NOT_APPROVED
    /\ response.card.summary =
          DrugLabel \o S_Ciplar \o Pipe \o TrialLabel \o APPROVED \o Pipe \o ReimbLabel \o NOT_APPROVED

\* An endpoint has answered the last request.
EndpointAnswered == http_response.calls > 0

\* C18: for both policy endpoints the answer to the caller is the
\* evaluator's envelope whether log_event succeeds or fails: whenever the
\* evaluator returned an envelope, the endpoint answers 200 with it.
C18_AuditCannotAffectResponse ==
    (EndpointAnswered /\ response.kind = "return")
    => /\ http_response.status = 200
       /\ http_response.body = response

\* log_event succeeded and the endpoint answered with the envelope.
C18_AnsweredWithEnvelope ==
    /\ EndpointAnswered
    /\ response.kind = "return"
    /\ response.card_type = "reimbursement_status_card"
    /\ http_response.status = 200
    /\ http_response.body = response
    /\ Len(_audit_log) = 2

\* The step is an endpoint call.
EndpointCall == http_response'.calls = http_response.calls + 1

\* The step is an endpoint call whose log_event raised.
AuditRaised == EndpointCall /\ response'.kind = "return" /\ http_response'.status = 500

\* The log after the step is the log before it with one entry for the call
\* placed last.
OneEntryAppended ==
    /\ Len(_audit_log') = Len(_audit_log) + 1
    /\ SubSeq(_audit_log', 1, Len(_audit_log)) = _audit_log
    /\ LET entry == _audit_log'[Len(_audit_log')]
       IN  /\ DOMAIN entry = {"timestamp", "engine", "endpoint", "input_summary",
                              "output_type", "source_ids"}
           /\ entry.engine = "policy_reimbursement"
           /\ entry.endpoint = Endpoint(request')
           /\ entry.output_type = response'.card_type
           /\ response'.kind = "return"

\* C19: the audit log is append-only: each call of a policy endpoint (whose
\* log_event does not itself fail) appends exactly one entry, placed last,
\* with engine "policy_reimbursement", the endpoint path, output_type equal
\* to the card_type of the returned envelope and exactly the six keys; no
\* step modifies, reorders or removes an entry already in the log.
C19_AuditAppendOnly ==
    [][/\ Len(_audit_log') >= Len(_audit_log)
       /\ SubSeq(_audit_log', 1, Len(_audit_log)) = _audit_log
       /\ (EndpointCall /\ ~AuditRaised) => OneEntryAppended]_vars

\* The same for the endpoint calls whose evaluator returned an envelope.
C19_AppendOnlyWhenReturned ==
    [][/\ Len(_audit_log') >= Len(_audit_log)
       /\ SubSeq(_audit_log', 1, Len(_audit_log)) = _audit_log
       /\ (EndpointCall /\ ~AuditRaised /\ response'.kind = "return") => OneEntryAppended
       /\ ~EndpointCall => _audit_log' = _audit_log]_vars

\* Two endpoint calls have been answered and the log holds one entry: the
\* evaluator of the other call raised.
C19_CallWithoutEntry ==
    /\ http_response.calls = 2
    /\ Len(_audit_log) = 1
    /\ response.kind = "raise"
    /\ response.exc = "ValidationError"

\* The remembered earlier call ended in the exception of a failed load.
EarlierLoadFailed ==
    /\ earlier.response.kind = "raise"
    /\ earlier.response.exc = "JSONDecodeError"

\* The step is an evaluator call (every step but a change of the file).
EvaluatorCall == policy_file' = policy_file

\* C20: a configuration that cannot be parsed at load time makes the
\* evaluator fail with the load's exception, never return an envelope, and
\* once a load has failed no later evaluator call of the process returns an
\* envelope.
C20_LoadFailureIsFatal ==
    [][EvaluatorCall =>
          /\ LoadRaises(_policies, policy_file)
                => (response'.kind = "raise" /\ response'.exc = "JSONDecodeError")
          /\ EarlierLoadFailed => response'.kind = "raise"]_vars

\* A call that meets an unparsable file with an empty cache fails with the
\* load's exception and leaves the cache empty.
C20_LoadFailureRaises ==
    [][(EvaluatorCall /\ LoadRaises(_policies, policy_file))
          => /\ response'.kind = "raise"
             /\ response'.exc = "JSONDecodeError"
             /\ _policies' = _policies]_vars

\* A call has returned an approval after an earlier call of the same
\* process failed to load the configuration.
C20_RecoveredAfterFailure ==
    /\ EarlierLoadFailed
    /\ response.kind = "return"
    /\ response.card_type = "reimbursement_status_card"
    /\ response.card.status = APPROVED


\* The result of a call made alone, with no other call in flight, on the
\* store `policies`.
RunAlone(policies, req) ==
    IF req.op = "trial"
    THEN _evaluate_trial_eligibility(
             policies, req.drug_name, req.diagnosis, req.patient_age, req.prior_treatments)
    ELSE IF req.op = "reimbursement"
    THEN evaluate_reimbursement(
             policies, req.drug_name, req.diagnosis, req.insurance_type, req.claim_amount)
    ELSE generate_report(
             policies, req.drug_name, req.diagnosis, req.patient_age, req.insurance_type,
             req.claim_amount, req.prior_treatments, CHOOSE now \in Timestamps : TRUE)

\* In this step thread t ends a call that began on a filled cache.
WarmCallEnds(t) == threads[t].pc = "eval" /\ threads'[t].pc = "done" /\ threads[t].warm

\* A call that began on a filled cache and is over.
WarmDone(th) == th.pc = "done" /\ th.warm

\* C21: once the store is loaded, calls of the evaluators that interleave
\* statement by statement on threads, with no lock, each return the result
\* the same call gives when it runs alone on the store (reports differ in
\* generated_at only), and no step of any of them changes the store.
C21_InterleavedCallsAsAlone ==
    [][/\ _policies.keys # {} => _policies' = _policies
       /\ \A t \in Threads :
              WarmCallEnds(t) =>
                  SameOutcome(threads'[t].response, RunAlone(_policies', threads'[t].request))]_vars

\* Two calls with different arguments that overlapped, both begun on the
\* loaded store, are both over, one of them a report.
C21_Witness ==
    \E t, u \in Threads :
        /\ t # u
        /\ WarmDone(threads[t]) /\ WarmDone(threads[u])
        /\ threads[t].overlaps
        /\ threads[t].request.op = "report"
        /\ threads[t].response.card_type = "policy_report_card"
        /\ threads[u].request.op = "trial"
        /\ threads[u].response.card_type = "trial_enablement_card"


\* A model call that gave _call_llm nothing: it raised, or its text was
\* missing or empty once stripped.
GaveNothing(call) ==
    \/ call.reply.raises # ""
    \/ call.reply.text = None
    \/ Strip(call.reply.text[1]) = <<>>

\* The stripped text of the first model call that gave one, None if none did.
RECURSIVE FirstText(_)
FirstText(calls) ==
    IF calls = <<>> THEN None
    ELSE IF GaveNothing(Head(calls)) THEN FirstText(Tail(calls))
    ELSE Some(Strip(Head(calls).reply.text[1]))

\* C22: _call_llm makes at most two model calls, the first to the primary
\* model, the second to the fallback model and only after the primary raised
\* or gave no text and only when the two model names differ; without a client
\* it calls no model; it returns the first non-empty (stripped) text obtained,
\* None when there is none, and no exception leaves it.
C22_TwoTierFallback ==
    /\ Len(llm.calls) <= 2
    /\ Len(llm.calls) >= 1 =>
           /\ llm._gemini_client
           /\ llm.calls[1].model = llm._GEMINI_MODEL
    /\ Len(llm.calls) = 2 =>
           /\ llm.calls[2].model = llm._GEMINI_FALLBACK_MODEL
           /\ llm._GEMINI_FALLBACK_MODEL # llm._GEMINI_MODEL
           /\ GaveNothing(llm.calls[1])
    /\ ~llm.raised
    /\ llm.pc = "done" =>
           /\ llm.result = FirstText(llm.calls)
           /\ ~llm._gemini_client => llm.calls = <<>> /\ llm.result = None

\* The primary model raised, the fallback model answered, and _call_llm
\* returned the fallback's text.
C22_Witness ==
    /\ llm.pc = "done"
    /\ Len(llm.calls) = 2
    /\ llm.calls[1].reply.raises # ""
    /\ llm.calls[2].reply.text = Some(<<" ", "o", "k", " ">>)
    /\ llm.result = Some(<<"o", "k">>)


\* The slot of a coverage display that an insurance type names.
SlotOf(display, insurance_type) ==
    IF insurance_type = S_government THEN display.government
    ELSE IF insurance_type = S_corporate THEN display.corporate
    ELSE display.private

\* enrich_coverage_display was applied to the arguments drawn.
Enriched == coverage.call = "enrich"

\* C23: for a reimbursement_status_card and an insurance type among
\* government, corporate and private, the coverage display has the slot of
\* that type filled with the card's status and its locked colour (APPROVED
\* green, CONDITIONAL yellow, NOT_APPROVED red) and the two other slots None;
\* with no card, no insurance type or any other insurance type the result is
\* None.
C23_CoverageSlot ==
    Enriched =>
        LET card == coverage.reimbursement_card
            insurance_type == coverage.insurance_type
            display == coverage.coverage_display
        IN  IF card = None \/ insurance_type = None
            THEN display = None
            ELSE IF insurance_type[1] \notin {S_government, S_corporate, S_private}
            THEN display = None
            ELSE ValidReimbCard(card[1]) =>
                     /\ display # None
                     /\ \A t \in {S_government, S_corporate, S_private} :
                            IF t # insurance_type[1]
                            THEN SlotOf(display[1], t) = None
                            ELSE /\ SlotOf(display[1], t) # None
                                 /\ SlotOf(display[1], t)[1].status = card[1].status
                                 /\ card[1].status = APPROVED =>
                                        SlotOf(display[1], t)[1].color = "green"
                                 /\ card[1].status = CONDITIONAL =>
                                        SlotOf(display[1], t)[1].color = "yellow"
                                 /\ card[1].status = NOT_APPROVED =>
                                        SlotOf(display[1], t)[1].color = "red"

\* A CONDITIONAL card is shown in the private slot, in yellow.
C23_Witness ==
    /\ Enriched
    /\ coverage.reimbursement_card # None
    /\ ValidReimbCard(coverage.reimbursement_card[1])
    /\ coverage.reimbursement_card[1].status = CONDITIONAL
    /\ coverage.insurance_type = Some(S_private)
    /\ coverage.coverage_display # None
    /\ coverage.coverage_display[1].private # None
    /\ coverage.coverage_display[1].private[1].color = "yellow"
    /\ coverage.coverage_display[1].corporate = None

\* The profile answered, and its reimbursement evaluation returned the
\* no-policy refusal.
ProfileNoPolicy ==
    /\ request.op = "profile"
    /\ http_response.status = 200
    /\ response.card_type = "refusal_card"

\* The statuses of an evaluation.
EvaluatedStatuses == {APPROVED, CONDITIONAL, NOT_APPROVED}

\* A coverage display with an evaluated status in one of its slots.
ShowsEvaluatedStatus(coverage_display) ==
    /\ coverage_display # None
    /\ \E t \in {S_government, S_corporate, S_private} :
           /\ SlotOf(coverage_display[1], t) # None
           /\ SlotOf(coverage_display[1], t)[1].status \in EvaluatedStatuses

\* C24: when evaluate_reimbursement returned the no-policy refusal, the
\* profile reports enrichment_status.reimbursement = "no_policy" and its
\* coverage display has no slot with the status NOT_APPROVED, APPROVED or
\* CONDITIONAL.
C24_NoPolicyStaysDistinct ==
    ProfileNoPolicy =>
        /\ http_response.body.enrichment_status.reimbursement = "no_policy"
        /\ ~ShowsEvaluatedStatus(http_response.body.coverage_display)

\* The part of C24 that holds: the refusal is reported as "no_policy".
C24_NoPolicyReported ==
    ProfileNoPolicy => http_response.body.enrichment_status.reimbursement = "no_policy"

\* The profile of a drug without a reimbursement record shows NOT_APPROVED in
\* red in the corporate slot.
C24_RefusalShownNotApproved ==
    /\ ProfileNoPolicy
    /\ http_response.body.enrichment_status.reimbursement = "no_policy"
    /\ http_response.body.enrichment_status.coverage_display = "available"
    /\ http_response.body.coverage_display # None
    /\ http_response.body.coverage_display[1].corporate # None
    /\ http_response.body.coverage_display[1].corporate[1].status = NOT_APPROVED
    /\ http_response.body.coverage_display[1].corporate[1].color = "red"


\* C25: the reason codes of every reimbursement_status_card are, in this
\* order and each at most once, DIAGNOSIS_NOT_COVERED:<diagnosis> when the
\* diagnosis is not in eligible_diagnoses, INSURANCE_TYPE_UNKNOWN:<type> when
\* insurance_coverage has no entry for the type, NO_COVERAGE when
\* coverage_percent is 0, and CLAIM_EXCEEDS_MAX:<max_amount> when
\* claim_amount > max_amount > 0; a code is present exactly when its
\* condition holds.
C25_ReimbReasonCodeOrder ==
    HasReimbResult =>
        LET listed == request.insurance_type \in DOMAIN ReimbPolicy.insurance_coverage
            cap == IF listed THEN ReimbCoverage.max_amount ELSE 0
        IN  ReimbCard.reason_codes =
                (IF InList(request.diagnosis, ReimbPolicy.eligible_diagnoses) THEN <<>>
                 ELSE <<DIAGNOSIS_NOT_COVERED \o <<":">> \o request.diagnosis>>)
                \o (IF listed THEN <<>>
                    ELSE <<INSURANCE_TYPE_UNKNOWN \o request.insurance_type>>)
                \o (IF ReimbCard.coverage_percent = 0 THEN <<NO_COVERAGE>> ELSE <<>>)
                \o (IF request.claim_amount > cap /\ cap > 0
                    THEN <<CLAIM_EXCEEDS_MAX \o FormatNumber(cap)>> ELSE <<>>)

\* C25 witness: an ineligible diagnosis under a listed insurance type that
\* covers 0%, with a claim above its cap: three codes.
C25_Witness ==
    /\ HasReimbResult
    /\ request.op = "reimbursement"
    /\ request.insurance_type \in DOMAIN ReimbPolicy.insurance_coverage
    /\ Len(ReimbCard.reason_codes) = 3
    /\ ReimbCard.reason_codes[2] = NO_COVERAGE
    /\ StartsWith(ReimbCard.reason_codes[3], CLAIM_EXCEEDS_MAX)


\* The required prior treatments of the request's trial record.
RequiredPrior ==
    IF "required_prior_treatments" \in DOMAIN TrialPolicy
    THEN ToSet(TrialPolicy.required_prior_treatments)
    ELSE {}

\* The required treatments that the request does not list, letter for letter.
NotProvided ==
    {r \in RequiredPrior :
        \A i \in 1..Len(request.prior_treatments) : request.prior_treatments[i] # r}

\* The ways of listing a set, each element once.
Listings(S) ==
    {l \in [1..Cardinality(S) -> S] : \A i, j \in 1..Cardinality(S) : l[i] = l[j] => i = j}

\* A list in ascending order of code points.
Ascending(l) == \A i \in 1..(Len(l) - 1) : StrLess(l[i], l[i + 1])

RECURSIVE CommaJoined(_)
CommaJoined(l) ==
    IF Len(l) = 0 THEN <<>>
    ELSE IF Len(l) = 1 THEN l[1]
    ELSE l[1] \o <<",">> \o CommaJoined(Tail(l))

\* C26: a trial result has no MISSING_PRIOR_TREATMENT code when every
\* required prior treatment is in the request's prior_treatments and exactly
\* one when some are not; the code lists the missing treatments, all of them
\* and no other, in ascending order, joined by commas.  Treatments match
\* letter for letter, whatever the order and the repetitions in the request;
\* a record without required_prior_treatments requires none.
C26_MissingPriorCode ==
    HasTrialResult =>
        LET codes == Tagged(TrialCard.reason_codes, MISSING_PRIOR_TREATMENT)
        IN  IF NotProvided = {}
            THEN codes = <<>>
            ELSE /\ Len(codes) = 1
                 /\ \E l \in Listings(NotProvided) :
                        Ascending(l) /\ codes[1] = CommaJoined(l)

\* C26 witness: the record requires metformin and Statin; the request lists
\* statin twice, and both required treatments are reported, Statin first.
C26_Witness ==
    /\ HasTrialResult
    /\ RequiredPrior = {S_metformin, S_Statin}
    /\ request.prior_treatments = <<S_statin, S_statin>>
    /\ Tagged(TrialCard.reason_codes, MISSING_PRIOR_TREATMENT)
           = <<S_Statin \o <<",">> \o S_metformin>>

\* A record without required_prior_treatments gave a result.
C26_NoRequirement ==
    /\ HasTrialResult
    /\ "required_prior_treatments" \notin DOMAIN TrialPolicy
    /\ request.prior_treatments = <<>>
    /\ TrialCard.status = APPROVED


\* The request's diagnosis is not an eligible diagnosis of the trial record
\* but equals one when letter case is ignored.
DiffersInCaseOnly ==
    /\ ~InList(request.diagnosis, TrialPolicy.eligible_diagnoses)
    /\ \E i \in 1..Len(TrialPolicy.eligible_diagnoses) :
           Lower(TrialPolicy.eligible_diagnoses[i]) = Lower(request.diagnosis)

\* The exclusion criteria of the request's trial record.
ExclusionCriteria ==
    IF "exclusion_criteria" \in DOMAIN TrialPolicy THEN TrialPolicy.exclusion_criteria ELSE <<>>

\* C27: a diagnosis that differs from an eligible diagnosis in letter case
\* only gets DIAGNOSIS_NOT_ELIGIBLE:<diagnosis>, and every exclusion
\* criterion the diagnosis contains when case is ignored is flagged and gets
\* its EXCLUSION_CRITERIA code; a diagnosis in eligible_diagnoses letter for
\* letter gets no DIAGNOSIS_NOT_ELIGIBLE code.
C27_DiagnosisCaseRules ==
    HasTrialResult =>
        /\ DiffersInCaseOnly =>
               InList(DIAGNOSIS_NOT_ELIGIBLE \o request.diagnosis, TrialCard.reason_codes)
        /\ InList(request.diagnosis, TrialPolicy.eligible_diagnoses) =>
               Tagged(TrialCard.reason_codes, DIAGNOSIS_NOT_ELIGIBLE) = <<>>
        /\ \A i \in 1..Len(ExclusionCriteria) :
               IsSubstr(Lower(ExclusionCriteria[i]), Lower(request.diagnosis)) =>
                   /\ InList(ExclusionCriteria[i], TrialCard.exclusion_flags)
                   /\ InList(EXCLUSION_CRITERIA \o ExclusionCriteria[i], TrialCard.reason_codes)

\* C27 witness: 'hypertension' against the eligible 'Hypertension' and the
\* exclusion criterion 'HYPER': refused as not eligible and flagged.
C27_Witness ==
    /\ HasTrialResult
    /\ DiffersInCaseOnly
    /\ request.diagnosis = S_hypertension
    /\ InList(S_HYPER, ExclusionCriteria)
    /\ InList(DIAGNOSIS_NOT_ELIGIBLE \o S_hypertension, TrialCard.reason_codes)
    /\ InList(EXCLUSION_CRITERIA \o S_HYPER, TrialCard.reason_codes)


\* The conditions under which a reimbursement request is conditionally
\* approved: an eligible diagnosis, a listed insurance type that covers more
\* than 0%, and a claim above its positive cap.
OnlyTheCapExceeded ==
    /\ InList(request.diagnosis, ReimbPolicy.eligible_diagnoses)
    /\ request.insurance_type \in DOMAIN ReimbPolicy.insurance_coverage
    /\ ReimbCoverage.coverage_percent > 0
    /\ ReimbCoverage.max_amount > 0
    /\ request.claim_amount > ReimbCoverage.max_amount

\* C29: a reimbursement result is CONDITIONAL exactly when its reason codes
\* are the single code CLAIM_EXCEEDS_MAX:<max_amount>, which is exactly when
\* the diagnosis is eligible, the insurance type is listed with a coverage
\* above 0 and claim_amount > max_amount > 0; no result carries both
\* INSURANCE_TYPE_UNKNOWN and CLAIM_EXCEEDS_MAX.
C29_ConditionalOnlyForCap ==
    HasReimbResult =>
        LET codes == ReimbCard.reason_codes
            single == /\ Len(codes) = 1
                      /\ request.insurance_type \in DOMAIN ReimbPolicy.insurance_coverage
                      /\ codes[1] = CLAIM_EXCEEDS_MAX \o FormatNumber(ReimbCoverage.max_amount)
        IN  /\ (ReimbCard.status = CONDITIONAL) <=> single
            /\ single <=> OnlyTheCapExceeded
            /\ ~(/\ Tagged(codes, INSURANCE_TYPE_UNKNOWN) # <<>>
                 /\ Tagged(codes, CLAIM_EXCEEDS_MAX) # <<>>)

\* C29 witness: the insurance type named DIAGNOSIS_NOT_COVERED is listed with
\* 40% and a cap of 2000; a claim of 5000 is CONDITIONAL with one code.
C29_Witness ==
    /\ HasReimbResult
    /\ request.insurance_type = DIAGNOSIS_NOT_COVERED
    /\ OnlyTheCapExceeded
    /\ ReimbCard.status = CONDITIONAL
    /\ ReimbCard.reason_codes = <<CLAIM_EXCEEDS_MAX \o <<"2", "0", "0", "0">>>>


\* claim_amount x coverage_percent / 100 of a reimbursement result, in
\* hundredths.
CoveredAmount == request.claim_amount * ReimbCard.coverage_percent

\* C30: when approved_amount is less than claim_amount x coverage_percent /
\* 100 the reason codes contain CLAIM_EXCEEDS_MAX and the status is not
\* APPROVED; every APPROVED result pays the covered amount in full and has
\* no reason code.  (No record has a negative max_amount.)
C30_CapAlwaysReported ==
    HasReimbResult =>
        /\ ReimbCard.approved_amount < CoveredAmount =>
               /\ Tagged(ReimbCard.reason_codes, CLAIM_EXCEEDS_MAX) # <<>>
               /\ ReimbCard.status # APPROVED
        /\ ReimbCard.status = APPROVED =>
               /\ ReimbCard.approved_amount = CoveredAmount
               /\ ReimbCard.reason_codes = <<>>

\* The part of C30 that holds: under a positive max_amount a payout the cap
\* reduced comes with CLAIM_EXCEEDS_MAX and is not APPROVED, and every
\* APPROVED result has no reason code.
C30_PositiveCapReported ==
    HasReimbResult =>
        /\ (/\ request.insurance_type \in DOMAIN ReimbPolicy.insurance_coverage
            /\ ReimbCoverage.max_amount > 0
            /\ ReimbCard.approved_amount < CoveredAmount)
           => /\ Tagged(ReimbCard.reason_codes, CLAIM_EXCEEDS_MAX) # <<>>
              /\ ReimbCard.status # APPROVED
        /\ ReimbCard.status = APPROVED => ReimbCard.reason_codes = <<>>

\* An insurance type listed with 50% and max_amount 0: the claim is APPROVED
\* with no reason code and approved_amount 0.
C30_ZeroCapApproved ==
    /\ HasReimbResult
    /\ request.insurance_type \in DOMAIN ReimbPolicy.insurance_coverage
    /\ ReimbCoverage.max_amount = 0
    /\ ReimbCoverage.coverage_percent = 50
    /\ request.claim_amount = 5000
    /\ ReimbCard.status = APPROVED
    /\ ReimbCard.reason_codes = <<>>
    /\ ReimbCard.approved_amount = 0


\* A call that began on an empty cache.
Cold(th) == th.pc # "idle" /\ ~th.warm

\* C28: when calls that began on an empty cache interleave, the cache is at
\* every point empty or the whole parsed document, every dictionary such a
\* call evaluates is the whole document, every such call ends with the
\* result it has when the calls run one after the other, and once they are
\* all over the cache holds the whole document.
C28_FirstCallsRace ==
    /\ _policies \in {EmptyDoc, policy_file}
    /\ \A t \in Threads :
           Cold(threads[t]) =>
               /\ threads[t].pc \in {"eval", "done"} => threads[t].policies = policy_file
               /\ threads[t].pc = "done" =>
                      SameOutcome(threads[t].response,
                                  RunAlone(policy_file, threads[t].request))
    /\ (/\ \A t \in Threads : threads[t].pc = "done"
        /\ \E t \in Threads : Cold(threads[t]))
       => _policies = policy_file

\* C28 witness: two calls both found the cache empty, the file was read
\* twice, and both ended with a card of the loaded document.
C28_Witness ==
    /\ reads = 2
    /\ _policies = policy_file
    /\ _policies.keys # {}
    /\ \A t \in {1, 2} :
           /\ Cold(threads[t])
           /\ threads[t].pc = "done"
           /\ threads[t].response.kind = "return"
           /\ threads[t].response.card_type # "refusal_card"
    /\ threads[1].request.op # threads[2].request.op

=============================================================================
